---- MODULE Spec2Model ----
(***************************************************************************)
(* Lead lifecycle, round-robin allocation, deadline sweep and reminder     *)
(* sweep of the lead-management application (src/app.py, src/models.py),   *)
(* on the PostgreSQL backend.  A request handler or a scheduler job is one *)
(* action: what it commits is what the primed variables hold.              *)
(***************************************************************************)
EXTENDS Integers, Sequences, FiniteSets, TLC

\* ---------------------------------------------------------------- bounds
MaxLeads == 2          \* leads submitted in the lifecycle specification
MaxOps == 3            \* committed writes in the lifecycle specification
MaxPipelineOps == 3    \* committed writes in the pipeline specification
MaxNow == 17           \* last hour the clock reaches
MaxJobRuns == 2        \* consecutive runs of a scheduler job
MaxTakes == 4          \* submits and take_next calls in the allocator specification
MaxRoleEdits == 2      \* role changes in the allocator specification
MaxActivities == 2     \* activities in the reminder specification
MaxReminderOps == 3    \* committed writes in the reminder specification
MaxReminderNow == 33   \* last hour the clock reaches in the reminder specification
MaxConcOps == 5        \* commits in the specification of concurrent requests
MaxBdOps == 3          \* calls of the BD pointer functions in the BD rotation specification
MaxSoftOps == 3        \* requests that reach their writes in the soft-delete specification
MaxSweepOps == 4       \* requests and job runs started in the specification of the job beside requests
MaxFaultRun == 6       \* errors in a row that one commit or wrapped call meets
MaxTargetOps == 2      \* target requests and seeded targets
MaxDay == 3            \* last day a target period can name
MaxLiveLeads == 11     \* leads submitted in the specification of the periodic job
MaxFaultOps == 3       \* requests that reach their writes in the fault specification

\* ------------------------------------------------------- program constants
NULL == 0
InitialDeadlineHours == 15
RevertDeadlineHours == 4
SweepDeadlineHours == 4
SweepBatchLimit == 10
ReminderBatchLimit == 20
OtherManagersPlaceholders == 2
OtherManagersParams == 1
SystemAuthorId == 1
HoursPerDay == 24
Workers == 1..2
InitialDelayMs == 100
MaxRetries == 5
TickHours == 16

Users == 1..6
Stages == {1, 2}
Roles == {"admin", "manager", "marketer", "bd_sales"}

VARIABLES
    role,                    \* users.role, by user id
    leads,                   \* leads table, row id = index
    lead_assignments,        \* lead_assignments table, row id = index
    lead_notes,              \* lead_notes table
    notifications,           \* notifications table
    lead_stage_history,      \* lead_stage_history table
    bd_assignment_history,   \* bd_assignment_history table
    lead_assignment_history, \* lead_assignment_history table
    lead_activities,         \* lead_activities table, row id = index
    assignment_settings,     \* the singleton row id = 1
    pushes,                  \* socketio 'notification' events emitted to user rooms
    now,                     \* database clock, in hours
    last,                    \* the last request, clock tick or job run, and how it ended
    nops,                    \* requests that reached their writes so far
    nedits,                  \* committed role changes so far
    rr_log,                  \* pointer at the start of a run of take_next calls, and what they returned
    inflight,                \* per worker, the request it is serving and what that request has read
    lead_targets             \* lead_targets table, row id = index

db == <<role, leads, lead_assignments, lead_notes, notifications, lead_stage_history,
        bd_assignment_history, lead_assignment_history, lead_activities, assignment_settings>>
vars == <<role, leads, lead_assignments, lead_notes, notifications, lead_stage_history,
          bd_assignment_history, lead_assignment_history, lead_activities, assignment_settings,
          pushes, now, last, nops, nedits, rr_log, inflight, lead_targets>>

\* ---------------------------------------------------------------- helpers
Min(S) == CHOOSE x \in S : \A y \in S : x <= y

RECURSIVE SortedIds(_)
SortedIds(S) == IF S = {} THEN << >> ELSE LET m == Min(S) IN <<m>> \o SortedIds(S \ {m})

Range(s) == {s[i] : i \in DOMAIN s}

IndexOf(s, x) == CHOOSE i \in DOMAIN s : s[i] = x

UsersWithRole(r) == {u \in Users : role[u] = r}

\* a pool that also holds the admins
ManagerIdsWithAdmins == SortedIds(UsersWithRole("manager") \cup UsersWithRole("admin"))

\* SELECT id FROM users WHERE role = 'manager' ORDER BY id
ManagerIds == SortedIds(UsersWithRole("manager"))

\* SELECT id FROM users WHERE role = 'bd_sales' ORDER BY id
BdIds == SortedIds(UsersWithRole("bd_sales"))

\* a committed request on a lead; a job run also counts its consecutive runs and names the
\* leads it reassigned
\* told is what the caller of the request learns, durable whether its writes were committed
Last(op, lead_id) ==
    [op |-> op, lead_id |-> lead_id, runs |-> 0, reassigned |-> {},
     told |-> "success", durable |-> TRUE]

JobRun(op, reassigned) ==
    [op |-> op, lead_id |-> NULL, runs |-> IF last.op = op THEN last.runs + 1 ELSE 1,
     reassigned |-> reassigned, told |-> "success", durable |-> TRUE]

\* a request that got as far as its commit, or died on the way to it
Ended(op, lead_id, told, durable) ==
    [Last(op, lead_id) EXCEPT !.told = told, !.durable = durable]

\* a request that ends without its writes: told is what its user sees
Lost(op, lead_id, told, pushesAfter) ==
    /\ pushes' = pushesAfter
    /\ last' = Ended(op, lead_id, told, FALSE)
    /\ nops' = nops + 1
    /\ UNCHANGED <<db, now, nedits, lead_targets, inflight, rr_log>>

\* role_required(*roles): the decorator lets the handler run
RoleRequired(actor, roles) == role[actor] \in roles

Day(t) == t \div HoursPerDay

\* ------------------------------------------------------------- allocator
\* a choice that falls back to the largest id
GetNextManagerIdFromEnd(manager_ids, last_assigned_id) ==
    IF last_assigned_id # NULL /\ last_assigned_id \in Range(manager_ids)
    THEN manager_ids[(IndexOf(manager_ids, last_assigned_id) % Len(manager_ids)) + 1]
    ELSE manager_ids[Len(manager_ids)]

\* get_next_manager_for_assignment, the choice of the next id
GetNextManagerId(manager_ids, last_assigned_id) ==
    IF last_assigned_id # NULL /\ last_assigned_id \in Range(manager_ids)
    THEN manager_ids[(IndexOf(manager_ids, last_assigned_id) % Len(manager_ids)) + 1]
    ELSE manager_ids[1]

\* a choice that never wraps: past the largest id it stays there
NewLeadRoundRobinIdNoWrap(manager_ids, last_assigned_id) ==
    IF last_assigned_id # NULL /\ last_assigned_id \in Range(manager_ids)
    THEN LET i == IndexOf(manager_ids, last_assigned_id)
         IN manager_ids[IF i < Len(manager_ids) THEN i + 1 ELSE i]
    ELSE manager_ids[1]

\* new_lead, the inline round-robin choice of a marketer's submit
NewLeadRoundRobinId(manager_ids, last_assigned_id) ==
    IF last_assigned_id # NULL /\ last_assigned_id \in Range(manager_ids)
    THEN manager_ids[(IndexOf(manager_ids, last_assigned_id) % Len(manager_ids)) + 1]
    ELSE manager_ids[1]

\* rr_log after a take_next call that returned id
LogTake(id) == [start |-> rr_log.start, pool |-> rr_log.pool, taken |-> Append(rr_log.taken, id)]

\* rr_log after the pool or the pointer was written by something else
LogReset(pool, ptr) == [start |-> ptr, pool |-> pool, taken |-> << >>]

\* a worker between two requests
Idle == [op |-> "idle"]

\* ------------------------------------------------------------------- Init
Init ==
    /\ role = [u \in Users |->
                 CASE u = 1 -> "admin"
                   [] u \in {2, 3} -> "manager"
                   [] u = 4 -> "marketer"
                   [] OTHER -> "bd_sales"]
    /\ leads = << >>
    /\ lead_assignments = << >>
    /\ lead_notes = << >>
    /\ notifications = << >>
    /\ lead_stage_history = << >>
    /\ bd_assignment_history = << >>
    /\ lead_assignment_history = << >>
    /\ lead_activities = << >>
    /\ assignment_settings = [last_assigned_manager_id |-> NULL, last_assigned_bd_id |-> NULL]
    /\ pushes = << >>
    /\ now = 1
    /\ last = Last("init", NULL)
    /\ nops = 0
    /\ nedits = 0
    /\ rr_log = [start |-> NULL, pool |-> {2, 3}, taken |-> << >>]
    /\ inflight = [w \in Workers |-> Idle]
    /\ lead_targets = << >>

\* ------------------------------------------------------------- new_lead
Lead(submitter, manager_id) ==
    [submitted_by_user_id |-> submitter, status |-> "Pending",
     current_manager_id |-> manager_id, accepted_at |-> NULL,
     assigned_bd_id |-> NULL, current_stage_id |-> NULL, is_deleted |-> FALSE]

Assignment(lead_id, manager_id, hours, initial) ==
    [lead_id |-> lead_id, manager_id |-> manager_id, deadline_at |-> now + hours,
     acted_at |-> NULL, status |-> "pending", is_initial_assignment |-> initial]

Note(lead_id, author, type) == [lead_id |-> lead_id, author_user_id |-> author, note_type |-> type]

\* a notifications row; tag is the activity id a message ends with ("[Activity #id]"), if any
Notification(user_id, lead_id, kind) ==
    [user_id |-> user_id, lead_id |-> lead_id, kind |-> kind, created_date |-> Day(now),
     tag |-> NULL]

Push(user_id, kind) == [user_id |-> user_id, kind |-> kind]

\* the body of new_lead once a manager id (or none) is chosen
NewLeadWrites(actor, assigned_manager_id, method) ==
    LET lead_id == Len(leads) + 1 IN
    /\ leads' = Append(leads, Lead(actor, assigned_manager_id))
    /\ lead_notes' = IF assigned_manager_id # NULL
                     THEN lead_notes \o <<Note(lead_id, actor, "system"), Note(lead_id, actor, "system")>>
                     ELSE Append(lead_notes, Note(lead_id, actor, "system"))
    /\ lead_assignments' = IF assigned_manager_id # NULL
                           THEN Append(lead_assignments,
                                       Assignment(lead_id, assigned_manager_id, InitialDeadlineHours, 1))
                           ELSE lead_assignments
    /\ notifications' = IF assigned_manager_id # NULL
                        THEN Append(notifications, Notification(assigned_manager_id, lead_id, "assignment"))
                        ELSE notifications
    /\ pushes' = IF assigned_manager_id # NULL
                 THEN Append(pushes, Push(assigned_manager_id, "assignment"))
                 ELSE pushes
    /\ last' = Last("submit", lead_id)
    /\ nops' = nops + 1

NewLeadOutcome(actor) ==
    IF ~RoleRequired(actor, {"marketer", "manager"}) THEN "forbidden" ELSE "ok"

NewLeadB(actor, maxLeads, maxOps) ==
    /\ Len(leads) < maxLeads
    /\ nops < maxOps
    /\ UNCHANGED <<role, lead_stage_history, bd_assignment_history, lead_assignment_history,
                   lead_activities, now, nedits, lead_targets, inflight>>
    /\ IF NewLeadOutcome(actor) # "ok"
       THEN UNCHANGED <<leads, lead_notes, lead_assignments, notifications, pushes,
                        assignment_settings, last, nops, rr_log>>
       ELSE IF role[actor] = "marketer"
       THEN IF ManagerIds # << >>
            THEN LET id == NewLeadRoundRobinId(ManagerIds, assignment_settings.last_assigned_manager_id) IN
                 /\ assignment_settings' = [assignment_settings EXCEPT !.last_assigned_manager_id = id]
                 /\ rr_log' = LogTake(id)
                 /\ NewLeadWrites(actor, id, "round-robin")
            ELSE /\ UNCHANGED <<assignment_settings, rr_log>>
                 /\ NewLeadWrites(actor, NULL, NULL)
       ELSE \* a manager submits: ORDER BY RANDOM() LIMIT 1 among the other managers
            /\ UNCHANGED <<assignment_settings, rr_log>>
            /\ IF UsersWithRole("manager") \ {actor} = {}
               THEN NewLeadWrites(actor, NULL, "random")
               ELSE \E m \in UsersWithRole("manager") \ {actor} : NewLeadWrites(actor, m, "random")

NewLead == \E actor \in Users : NewLeadB(actor, MaxLeads, MaxOps)

LeadIds == 1..MaxLeads

LeadExists(lead_id) == lead_id \in DOMAIN leads

\* CHECK(status IN (...)) of lead_assignments
AssignmentStatusCheck == {"pending", "acted", "reassigned", "expired"}

\* a request that ends without a committed write and without a push
Refused == UNCHANGED vars

\* ----------------------------------------------------------- accept_lead
AcceptOutcome(actor, lead_id) ==
    IF ~RoleRequired(actor, {"admin", "manager"}) THEN "forbidden"
    ELSE IF ~LeadExists(lead_id) THEN "not_found"
    ELSE "ok"

AcceptPushes(lead_id) == Append(pushes, Push(leads[lead_id].submitted_by_user_id, "accepted"))

AcceptLead(actor, lead_id) ==
    IF AcceptOutcome(actor, lead_id) # "ok" THEN Refused
    ELSE
    /\ leads' = [leads EXCEPT ![lead_id].status = "Accepted", ![lead_id].accepted_at = now]
    /\ lead_assignments' =
         [i \in DOMAIN lead_assignments |->
            IF /\ lead_assignments[i].lead_id = lead_id
               /\ lead_assignments[i].manager_id = actor
               /\ lead_assignments[i].status = "pending"
            THEN [lead_assignments[i] EXCEPT !.acted_at = now, !.status = "acted"]
            ELSE lead_assignments[i]]
    /\ lead_notes' = Append(lead_notes, Note(lead_id, actor, "system"))
    /\ notifications' = Append(notifications,
                               Notification(leads[lead_id].submitted_by_user_id, lead_id, "accepted"))
    /\ pushes' = AcceptPushes(lead_id)
    /\ last' = Last("accept", lead_id)
    /\ nops' = nops + 1
    /\ UNCHANGED <<role, lead_stage_history, bd_assignment_history, lead_assignment_history,
                   lead_activities, assignment_settings, now, nedits, lead_targets, inflight, rr_log>>

\* ----------------------------------------------------------- reject_lead
RejectOutcome(actor, lead_id, valid) ==
    IF ~RoleRequired(actor, {"admin", "manager"}) THEN "forbidden"
    ELSE IF ~LeadExists(lead_id) THEN "not_found"
    ELSE IF ~valid THEN "form"
    ELSE "ok"

RejectPushes(lead_id) == Append(pushes, Push(leads[lead_id].submitted_by_user_id, "rejected"))

RejectLead(actor, lead_id, valid) ==
    IF RejectOutcome(actor, lead_id, valid) # "ok" THEN Refused
    ELSE
    /\ leads' = [leads EXCEPT ![lead_id].status = "Rejected"]
    /\ lead_notes' = Append(lead_notes, Note(lead_id, actor, "rejection"))
    /\ notifications' = Append(notifications,
                               Notification(leads[lead_id].submitted_by_user_id, lead_id, "rejected"))
    /\ pushes' = RejectPushes(lead_id)
    /\ last' = Last("reject", lead_id)
    /\ nops' = nops + 1
    /\ UNCHANGED <<role, lead_assignments, lead_stage_history, bd_assignment_history,
                   lead_assignment_history, lead_activities, assignment_settings, now, nedits, lead_targets, inflight, rr_log>>

\* ----------------------------------------------------------- revert_lead
\* UPDATE lead_assignments SET status = 'reverted' WHERE lead_id = .. AND status = 'acted'
RevertedStatus == "reverted"

ActedAssignments(lead_id) ==
    {i \in DOMAIN lead_assignments :
        /\ lead_assignments[i].lead_id = lead_id
        /\ lead_assignments[i].status = "acted"}

RevertOutcome(actor, lead_id, valid) ==
    IF ~RoleRequired(actor, {"admin", "manager"}) THEN "forbidden"
    ELSE IF ~LeadExists(lead_id) THEN "not_found"
    ELSE IF leads[lead_id].status # "Accepted" THEN "invalid_state"
    ELSE IF ~valid THEN "form"
    ELSE IF ActedAssignments(lead_id) # {} /\ RevertedStatus \notin AssignmentStatusCheck
    THEN "error"   \* the UPDATE violates the CHECK constraint: the request dies, nothing is committed
    ELSE "ok"

RevertPushes(lead_id) == Append(pushes, Push(leads[lead_id].submitted_by_user_id, "reverted"))

RevertLead(actor, lead_id, valid) ==
    IF RevertOutcome(actor, lead_id, valid) # "ok" THEN Refused
    ELSE LET acted == ActedAssignments(lead_id) IN
         /\ leads' = [leads EXCEPT ![lead_id].status = "Rejected",
                                   ![lead_id].accepted_at = NULL,
                                   ![lead_id].current_manager_id = actor]
         /\ lead_assignments' =
              Append([i \in DOMAIN lead_assignments |->
                        IF i \in acted
                        THEN [lead_assignments[i] EXCEPT !.status = RevertedStatus]
                        ELSE lead_assignments[i]],
                     Assignment(lead_id, actor, RevertDeadlineHours, 0))
         /\ lead_notes' = Append(lead_notes, Note(lead_id, actor, "reversion"))
         /\ notifications' = Append(notifications,
                                    Notification(leads[lead_id].submitted_by_user_id, lead_id, "reverted"))
         /\ pushes' = RevertPushes(lead_id)
         /\ last' = Last("revert", lead_id)
         /\ nops' = nops + 1
         /\ UNCHANGED <<role, lead_stage_history, bd_assignment_history, lead_assignment_history,
                        lead_activities, assignment_settings, now, nedits, lead_targets, inflight, rr_log>>

\* --------------------------------------------------------- resubmit_lead
\* SELECT id FROM users WHERE role IN ('admin', 'manager')
ReviewerIds == SortedIds(UsersWithRole("admin") \cup UsersWithRole("manager"))

\* a handler without the status check
ResubmitOutcomeAnyStatus(actor, lead_id, valid) ==
    IF ~RoleRequired(actor, {"marketer", "manager"}) THEN "forbidden"
    ELSE IF ~LeadExists(lead_id) THEN "not_found"
    ELSE IF leads[lead_id].submitted_by_user_id # actor THEN "forbidden"
    ELSE IF ~valid THEN "form"
    ELSE "ok"

\* resubmit_lead: the checks before the writes
ResubmitOutcome(actor, lead_id, valid) ==
    IF ~RoleRequired(actor, {"marketer", "manager"}) THEN "forbidden"
    ELSE IF ~LeadExists(lead_id) THEN "not_found"
    ELSE IF leads[lead_id].submitted_by_user_id # actor THEN "forbidden"
    ELSE IF leads[lead_id].status # "Rejected" THEN "invalid_state"
    ELSE IF ~valid THEN "form"
    ELSE "ok"

ResubmitPushes == pushes \o [i \in 1..Len(ReviewerIds) |-> Push(ReviewerIds[i], "resubmitted")]

\* resubmit_lead from its UPDATE to its commit
ResubmitWrites(actor, lead_id) ==
    /\ leads' = [leads EXCEPT ![lead_id].status = "Resubmitted"]
    /\ lead_notes' = Append(lead_notes, Note(lead_id, actor, "resubmission"))
    /\ notifications' = notifications \o
          [i \in 1..Len(ReviewerIds) |-> Notification(ReviewerIds[i], lead_id, "resubmitted")]
    /\ pushes' = ResubmitPushes
    /\ last' = Last("resubmit", lead_id)
    /\ nops' = nops + 1
    /\ UNCHANGED <<role, lead_assignments, lead_stage_history, bd_assignment_history,
                   lead_assignment_history, lead_activities, assignment_settings, now, nedits, lead_targets, rr_log>>

ResubmitLead(actor, lead_id, valid) ==
    IF ResubmitOutcome(actor, lead_id, valid) # "ok" THEN Refused
    ELSE ResubmitWrites(actor, lead_id) /\ UNCHANGED inflight

\* ------------------------------------------------------ assign_bd_sales
\* SELECT id FROM pipeline_stages ORDER BY position LIMIT 1
FirstStageId == Min(Stages)

Activity(lead_id, actor, type, due_at, reminder_at) ==
    [lead_id |-> lead_id, actor_id |-> actor, activity_type |-> type,
     due_at |-> due_at, reminder_at |-> reminder_at, completed_at |-> NULL]

\* a suggestion that stays on the largest id
PeekNextBdSalesNoWrap ==
    IF BdIds = << >> THEN NULL
    ELSE LET last_assigned_id == assignment_settings.last_assigned_bd_id IN
         IF last_assigned_id # NULL /\ last_assigned_id \in Range(BdIds)
         THEN LET i == IndexOf(BdIds, last_assigned_id)
              IN BdIds[IF i < Len(BdIds) THEN i + 1 ELSE i]
         ELSE BdIds[1]

\* peek_next_bd_sales_for_assignment: the suggestion, nothing is written
PeekNextBdSales ==
    IF BdIds = << >> THEN NULL
    ELSE LET last_assigned_id == assignment_settings.last_assigned_bd_id IN
         IF last_assigned_id # NULL /\ last_assigned_id \in Range(BdIds)
         THEN BdIds[(IndexOf(BdIds, last_assigned_id) % Len(BdIds)) + 1]
         ELSE BdIds[1]

\* peek_next_bd_sales_for_assignment() called by a handler: get_db() hands back the handler's
\* connection, and both return paths close it
PeekNextBdSalesForAssignment(conn) ==
    [id |-> PeekNextBdSales, conn |-> "closed", settings |-> assignment_settings]

\* assign_bd_sales: the checks, the peek, and the first execute after the form validates
AssignBdOutcome(actor, lead_id, bd_sales_id) ==
    IF ~RoleRequired(actor, {"admin", "manager", "bd_sales"}) THEN "forbidden"
    ELSE IF ~LeadExists(lead_id) THEN "not_found"
    ELSE IF leads[lead_id].status # "Accepted" THEN "invalid_state"
    ELSE IF BdIds = << >> THEN "no_bd"
    ELSE IF bd_sales_id \notin Range(BdIds) THEN "form"
    ELSE IF PeekNextBdSalesForAssignment("open").conn # "open"
    THEN "error"   \* cursor.execute on the closed connection raises InterfaceError
    ELSE IF Stages = {} THEN "no_stage"
    ELSE "ok"

AssignBdSales(actor, lead_id, bd_sales_id) ==
    IF AssignBdOutcome(actor, lead_id, bd_sales_id) = "error"
    THEN Lost("assign_bd", lead_id, "failure", pushes)
    ELSE IF AssignBdOutcome(actor, lead_id, bd_sales_id) # "ok" THEN Refused
    ELSE LET current_bd_id == leads[lead_id].assigned_bd_id IN
    /\ leads' = [leads EXCEPT ![lead_id].assigned_bd_id = bd_sales_id,
                              ![lead_id].current_stage_id = FirstStageId]
    /\ bd_assignment_history' = Append(bd_assignment_history,
          [lead_id |-> lead_id, from_bd_id |-> current_bd_id, to_bd_id |-> bd_sales_id,
           assigned_by_id |-> actor])
    /\ lead_stage_history' =
          IF leads[lead_id].current_stage_id # FirstStageId
          THEN Append(lead_stage_history,
                      [lead_id |-> lead_id, from_stage_id |-> leads[lead_id].current_stage_id,
                       to_stage_id |-> FirstStageId, changed_by_id |-> actor])
          ELSE lead_stage_history
    /\ assignment_settings' =
          IF current_bd_id # bd_sales_id
          THEN [assignment_settings EXCEPT !.last_assigned_bd_id = bd_sales_id]
          ELSE assignment_settings
    /\ lead_activities' = Append(lead_activities, Activity(lead_id, actor, "assignment", NULL, NULL))
    /\ notifications' = Append(notifications, Notification(bd_sales_id, lead_id, "bd_assigned"))
    /\ pushes' = Append(pushes, Push(bd_sales_id, "bd_assigned"))
    /\ last' = Last("assign_bd", lead_id)
    /\ nops' = nops + 1
    /\ UNCHANGED <<role, lead_assignments, lead_notes, lead_assignment_history, now, nedits, lead_targets, inflight, rr_log>>

\* ---------------------------------------------------- update_lead_stage
\* a handler without the ownership check
UpdateLeadStageOutcomeAnyBd(actor, lead_id, new_stage_id) ==
    IF ~RoleRequired(actor, {"admin", "manager", "bd_sales"}) THEN "forbidden"
    ELSE IF new_stage_id \notin Stages THEN "not_found"
    ELSE IF ~LeadExists(lead_id) THEN "not_found"
    ELSE "ok"

\* update_lead_stage: the checks before the writes
UpdateLeadStageOutcome(actor, lead_id, new_stage_id) ==
    IF ~RoleRequired(actor, {"admin", "manager", "bd_sales"}) THEN "forbidden"
    ELSE IF new_stage_id \notin Stages THEN "not_found"
    ELSE IF ~LeadExists(lead_id) THEN "not_found"
    ELSE IF role[actor] = "bd_sales" /\ leads[lead_id].assigned_bd_id # actor THEN "forbidden"
    ELSE "ok"

UpdateLeadStage(actor, lead_id, new_stage_id) ==
    IF UpdateLeadStageOutcome(actor, lead_id, new_stage_id) # "ok" THEN Refused
    ELSE LET owner == leads[lead_id].assigned_bd_id
             notify == owner # NULL /\ owner # actor
         IN
    /\ leads' = [leads EXCEPT ![lead_id].current_stage_id = new_stage_id]
    /\ lead_stage_history' = Append(lead_stage_history,
          [lead_id |-> lead_id, from_stage_id |-> leads[lead_id].current_stage_id,
           to_stage_id |-> new_stage_id, changed_by_id |-> actor])
    /\ notifications' = IF notify
                        THEN Append(notifications, Notification(owner, lead_id, "stage_moved"))
                        ELSE notifications
    /\ pushes' = IF notify THEN Append(pushes, Push(owner, "stage_moved")) ELSE pushes
    /\ last' = Last("move_stage", lead_id)
    /\ nops' = nops + 1
    /\ UNCHANGED <<role, lead_assignments, lead_notes, bd_assignment_history,
                   lead_assignment_history, lead_activities, assignment_settings, now, nedits, lead_targets, inflight, rr_log>>

\* ------------------------------------------------------------- the clock
TickB(maxNow) ==
    /\ now + TickHours <= maxNow
    /\ now' = now + TickHours
    /\ last' = Last("tick", NULL)
    /\ UNCHANGED <<db, pushes, nops, nedits, lead_targets, inflight, rr_log>>

Tick == TickB(MaxNow)

\* ----------------------------------------- check_and_reassign_overdue_leads
\* what the job's connection holds: the tables it writes, as seen by its cursor
SweepTables ==
    [leads |-> leads, lead_assignments |-> lead_assignments,
     lead_assignment_history |-> lead_assignment_history, lead_notes |-> lead_notes,
     notifications |-> notifications, assignment_settings |-> assignment_settings]

\* la.status = 'pending' AND la.deadline_at < CURRENT_TIMESTAMP AND l.status IN ('Pending', 'Resubmitted')
OverdueAssignments ==
    {i \in DOMAIN lead_assignments :
        /\ lead_assignments[i].status = "pending"
        /\ lead_assignments[i].deadline_at < now
        /\ leads[lead_assignments[i].lead_id].status \in {"Pending", "Resubmitted"}}

\* ORDER BY la.deadline_at ASC, as a sequence of row ids (equal deadlines by row id)
RECURSIVE ByDeadline(_)
ByDeadline(S) ==
    IF S = {} THEN << >>
    ELSE LET first == CHOOSE i \in S : \A j \in S :
                          \/ lead_assignments[i].deadline_at < lead_assignments[j].deadline_at
                          \/ /\ lead_assignments[i].deadline_at = lead_assignments[j].deadline_at
                             /\ i <= j
         IN <<first>> \o ByDeadline(S \ {first})

\* LIMIT 10
OverdueBatch ==
    LET all == ByDeadline(OverdueAssignments)
    IN SubSeq(all, 1, IF Len(all) < SweepBatchLimit THEN Len(all) ELSE SweepBatchLimit)

\* cursor.execute('... WHERE role = %s AND id != %s ORDER BY id', (old_manager_id,)):
\* the driver raises when the parameters do not fill the placeholders
OtherManagersQuery(old_manager_id) ==
    IF OtherManagersPlaceholders = OtherManagersParams
    THEN [raised |-> FALSE, rows |-> SortedIds(UsersWithRole("manager") \ {old_manager_id})]
    ELSE [raised |-> TRUE, rows |-> << >>]

\* get_next_manager_for_assignment() called without conn: get_db() hands back the
\* caller's connection, and should_close makes the callee commit and close it
GetNextManagerForAssignment(t, shared) ==
    IF ManagerIds = << >>
    THEN [id |-> NULL,
          t |-> IF shared THEN [t EXCEPT !.conn = "closed"] ELSE t]
    ELSE LET id == GetNextManagerId(ManagerIds, t.work.assignment_settings.last_assigned_manager_id)
             w == [t.work EXCEPT !.assignment_settings.last_assigned_manager_id = id]
         IN [id |-> id,
             t |-> IF shared
                   THEN [t EXCEPT !.work = w, !.committed = w, !.conn = "closed"]
                   ELSE [t EXCEPT !.work = w]]

\* columns of lead_assignment_history, and the columns the job's INSERT names
HistoryTableColumns == {"id", "lead_id", "from_manager_id", "to_manager_id", "reassigned_at",
                        "reason", "triggered_by"}
HistoryInsertColumns == {"assignment_id", "lead_id", "old_manager_id", "new_manager_id",
                         "reassignment_reason"}

\* INSERT INTO lead_assignments (.., deadline_at = now + 4 hours, status = 'pending')
ReassignInsert(t, a, new_manager_id) ==
    [t EXCEPT !.work.lead_assignments =
        Append(@, Assignment(lead_assignments[a].lead_id, new_manager_id, SweepDeadlineHours, 0))]

\* what follows the history INSERT: UPDATE leads, the system note, two notifications, two pushes
ReassignRest(t, a, new_manager_id) ==
    LET row == lead_assignments[a] IN
    [t EXCEPT
        !.work = [@ EXCEPT
            !.lead_assignment_history =
                Append(@, [lead_id |-> row.lead_id, old_manager_id |-> row.manager_id,
                           new_manager_id |-> new_manager_id]),
            !.leads = [@ EXCEPT ![row.lead_id].current_manager_id = new_manager_id],
            !.lead_notes = Append(@, Note(row.lead_id, SystemAuthorId, "system")),
            !.notifications = @ \o
                <<Notification(new_manager_id, row.lead_id, "reassigned_to_you"),
                  Notification(row.manager_id, row.lead_id, "deadline_missed")>>],
        !.pushes = @ \o <<Push(new_manager_id, "reassigned_to_you"),
                          Push(row.manager_id, "deadline_missed")>>]

\* the INSERTs and the UPDATE of one reassignment, on an open connection
ReassignWrites(t, a, new_manager_id) ==
    LET t1 == ReassignInsert(t, a, new_manager_id)
    IN IF ~(HistoryInsertColumns \subseteq HistoryTableColumns)
       THEN [t1 EXCEPT !.conn = "raised"]   \* the INSERT names unknown columns
       ELSE ReassignRest(t1, a, new_manager_id)

\* an iteration whose lookup, allocator call and history INSERT all go through
SweepStepReassigns(t, a) ==
    LET old_manager_id == lead_assignments[a].manager_id
        rows == SortedIds(UsersWithRole("manager") \ {old_manager_id})
    IN IF rows = << >> THEN t
       ELSE LET g == GetNextManagerForAssignment(t, FALSE)
                new_manager_id == IF g.id = old_manager_id THEN rows[1] ELSE g.id
            IN ReassignRest(ReassignInsert(g.t, a, new_manager_id), a, new_manager_id)

\* one iteration of the loop over the overdue assignments
SweepStep(t, a) ==
    LET old_manager_id == lead_assignments[a].manager_id
        q == OtherManagersQuery(old_manager_id)
    IN IF q.raised THEN [t EXCEPT !.conn = "raised"]
       ELSE IF q.rows = << >> THEN t
       ELSE LET g == GetNextManagerForAssignment(t, TRUE)
                new_manager_id == IF g.id = old_manager_id THEN q.rows[1] ELSE g.id
            IN IF g.t.conn # "open"
               THEN g.t        \* the next execute raises on the closed connection
               ELSE ReassignWrites(g.t, a, new_manager_id)

RECURSIVE SweepLoop(_, _, _)
SweepLoop(t, batch, i) ==
    IF i > Len(batch) \/ t.conn # "open" THEN t
    ELSE SweepLoop(SweepStep(t, batch[i]), batch, i + 1)

\* the job: count, select the batch, loop, safe_commit; except: rollback
SweepRunOn(batch) ==
    LET t0 == [work |-> SweepTables, committed |-> SweepTables, conn |-> "open", pushes |-> pushes]
        t == SweepLoop(t0, batch, 1)
    IN [tables |-> IF t.conn = "open" THEN t.work ELSE t.committed,
        pushes |-> t.pushes,
        outcome |-> IF t.conn = "open" THEN "ok" ELSE "error"]

SweepRun == SweepRunOn(OverdueBatch)

\* how a run of the job ends: nothing overdue, committed, or rolled back on an exception
SweepOutcome == IF OverdueAssignments = {} THEN "none" ELSE SweepRun.outcome

CheckAndReassignOverdueLeads ==
    /\ UNCHANGED <<role, lead_stage_history, bd_assignment_history, lead_activities, now, nedits, lead_targets, inflight, rr_log>>
    /\ ~(last.op = "sweep" /\ last.runs >= MaxJobRuns)
    /\ IF OverdueAssignments = {}
       THEN /\ last' = JobRun("sweep", {})
            /\ UNCHANGED <<leads, lead_assignments, lead_assignment_history, lead_notes,
                           notifications, assignment_settings, pushes, nops>>
       ELSE LET r == SweepRun IN
            /\ nops < MaxOps
            /\ last' = JobRun("sweep", {l \in DOMAIN leads :
                                          r.tables.leads[l] # leads[l]})
            /\ leads' = r.tables.leads
            /\ lead_assignments' = r.tables.lead_assignments
            /\ lead_assignment_history' = r.tables.lead_assignment_history
            /\ lead_notes' = r.tables.lead_notes
            /\ notifications' = r.tables.notifications
            /\ assignment_settings' = r.tables.assignment_settings
            /\ pushes' = r.pushes
            /\ nops' = IF r.tables = SweepTables THEN nops ELSE nops + 1

Accept == \E actor \in Users, lead_id \in LeadIds : AcceptLead(actor, lead_id)
Reject == \E actor \in Users, lead_id \in LeadIds, valid \in BOOLEAN : RejectLead(actor, lead_id, valid)
Revert == \E actor \in Users, lead_id \in LeadIds, valid \in BOOLEAN : RevertLead(actor, lead_id, valid)
Resubmit == \E actor \in Users, lead_id \in LeadIds, valid \in BOOLEAN : ResubmitLead(actor, lead_id, valid)
AssignBd == \E actor \in Users, lead_id \in LeadIds, bd \in Users : AssignBdSales(actor, lead_id, bd)
MoveStage == \E actor \in Users, lead_id \in LeadIds, st \in Stages : UpdateLeadStage(actor, lead_id, st)

\* ------------------------------------------------------------ edit_user
EditUserOutcome(actor, user_id) ==
    IF ~RoleRequired(actor, {"admin"}) THEN "forbidden"
    ELSE IF user_id \notin Users THEN "not_found"
    ELSE "ok"

\* UPDATE users SET name = .., email = .., role = .. WHERE id = ..
EditUser(actor, user_id, new_role) ==
    IF EditUserOutcome(actor, user_id) # "ok" THEN Refused
    ELSE
    /\ nedits < MaxRoleEdits
    /\ nedits' = nedits + 1
    /\ role' = [role EXCEPT ![user_id] = new_role]
    /\ rr_log' = LogReset({u \in Users : role'[u] = "manager"},
                          assignment_settings.last_assigned_manager_id)
    /\ last' = Last("edit_user", NULL)
    /\ UNCHANGED <<leads, lead_assignments, lead_notes, notifications, lead_stage_history,
                   bd_assignment_history, lead_assignment_history, lead_activities,
                   assignment_settings, pushes, now, nops, inflight, lead_targets>>

\* get_next_manager_for_assignment() on a connection of its own: choose, UPDATE, commit
GetNextManager ==
    /\ nops < MaxTakes
    /\ nops' = nops + 1
    /\ ManagerIds # << >>
    /\ LET t0 == [work |-> SweepTables, committed |-> SweepTables, conn |-> "open", pushes |-> pushes]
           g == GetNextManagerForAssignment(t0, TRUE)
       IN /\ assignment_settings' = g.t.committed.assignment_settings
          /\ rr_log' = LogTake(g.id)
    /\ last' = Last("take_next", NULL)
    /\ UNCHANGED <<role, leads, lead_assignments, lead_notes, notifications, lead_stage_history,
                   bd_assignment_history, lead_assignment_history, lead_activities,
                   pushes, now, nedits, lead_targets, inflight>>

\* ---------------------------------------------------------- add_activity
AddActivityOutcome(actor, lead_id, valid) ==
    IF ~LeadExists(lead_id) THEN "not_found"
    ELSE IF role[actor] = "bd_sales" /\ leads[lead_id].assigned_bd_id # actor THEN "forbidden"
    ELSE IF role[actor] \notin {"admin", "manager", "bd_sales"} THEN "forbidden"
    ELSE IF ~valid THEN "form"
    ELSE "ok"

AddActivity(actor, lead_id, due_at, reminder_at, valid) ==
    IF AddActivityOutcome(actor, lead_id, valid) # "ok" THEN Refused
    ELSE
    /\ Len(lead_activities) < MaxActivities
    /\ nops < MaxReminderOps
    /\ lead_activities' = Append(lead_activities, Activity(lead_id, actor, "task", due_at, reminder_at))
    /\ pushes' = IF reminder_at # NULL THEN Append(pushes, Push(actor, "reminder_set")) ELSE pushes
    /\ last' = Last("add_activity", lead_id)
    /\ nops' = nops + 1
    /\ UNCHANGED <<role, leads, lead_assignments, lead_notes, notifications, lead_stage_history,
                   bd_assignment_history, lead_assignment_history, assignment_settings,
                   now, nedits, lead_targets, inflight, rr_log>>

\* ------------------------------------------------- toggle_task_complete
ToggleTaskCompleteOutcome(actor, lead_id, activity_id) ==
    IF ~LeadExists(lead_id) THEN "not_found"
    ELSE IF role[actor] = "bd_sales" /\ leads[lead_id].assigned_bd_id # actor THEN "forbidden"
    ELSE IF role[actor] \notin {"admin", "manager", "bd_sales"} THEN "forbidden"
    ELSE IF ~(activity_id \in DOMAIN lead_activities /\ lead_activities[activity_id].lead_id = lead_id)
    THEN "not_found"
    ELSE "ok"

ToggleTaskComplete(actor, lead_id, activity_id) ==
    IF ToggleTaskCompleteOutcome(actor, lead_id, activity_id) # "ok" THEN Refused
    ELSE
    /\ nops < MaxReminderOps
    /\ lead_activities' =
          [lead_activities EXCEPT ![activity_id].completed_at = IF @ # NULL THEN NULL ELSE now]
    /\ last' = Last("toggle_complete", lead_id)
    /\ nops' = nops + 1
    /\ UNCHANGED <<role, leads, lead_assignments, lead_notes, notifications, lead_stage_history,
                   bd_assignment_history, lead_assignment_history, assignment_settings,
                   pushes, now, nedits, lead_targets, inflight, rr_log>>

\* ------------------------------------- check_and_send_activity_reminders
\* reminder_at IS NOT NULL AND reminder_at <= NOW() AND completed_at IS NULL
DueReminders ==
    {i \in DOMAIN lead_activities :
        /\ lead_activities[i].reminder_at # NULL
        /\ lead_activities[i].reminder_at <= now
        /\ lead_activities[i].completed_at = NULL}

\* ORDER BY la.reminder_at ASC, as a sequence of row ids (equal times by row id)
RECURSIVE ByReminderAt(_)
ByReminderAt(S) ==
    IF S = {} THEN << >>
    ELSE LET first == CHOOSE i \in S : \A j \in S :
                          \/ lead_activities[i].reminder_at < lead_activities[j].reminder_at
                          \/ /\ lead_activities[i].reminder_at = lead_activities[j].reminder_at
                             /\ i <= j
         IN <<first>> \o ByReminderAt(S \ {first})

\* JOIN leads, JOIN users, LIMIT 20
ReminderBatch ==
    LET all == ByReminderAt({i \in DueReminders :
                                /\ LeadExists(lead_activities[i].lead_id)
                                /\ lead_activities[i].actor_id \in Users})
    IN SubSeq(all, 1, IF Len(all) < ReminderBatchLimit THEN Len(all) ELSE ReminderBatchLimit)

\* due_at is a TIMESTAMP column: the driver hands the job a datetime, which has no slices
DueAtColumnType == "TIMESTAMP"
SubscriptableTypes == {"TEXT"}

ReminderNotification(activity_id) ==
    [user_id |-> lead_activities[activity_id].actor_id,
     lead_id |-> lead_activities[activity_id].lead_id,
     kind |-> "info", created_date |-> Day(now), tag |-> activity_id]

\* user_id = actor AND message LIKE '%[Activity #id]' AND DATE(created_at) = CURRENT_DATE
ExistingNotification(rows, activity_id) ==
    \E n \in DOMAIN rows :
        /\ rows[n].user_id = lead_activities[activity_id].actor_id
        /\ rows[n].tag = activity_id
        /\ rows[n].created_date = Day(now)

\* one iteration of the loop over the due activities
ReminderStep(t, activity_id) ==
    IF lead_activities[activity_id].due_at # NULL /\ DueAtColumnType \notin SubscriptableTypes
    THEN [t EXCEPT !.conn = "raised"]      \* activity["due_at"][:10] raises TypeError
    ELSE IF ExistingNotification(t.work, activity_id) THEN t
    ELSE [t EXCEPT !.work = Append(@, ReminderNotification(activity_id)),
                   !.pushes = Append(@, Push(lead_activities[activity_id].actor_id, "reminder"))]

RECURSIVE ReminderLoop(_, _, _)
ReminderLoop(t, batch, i) ==
    IF i > Len(batch) \/ t.conn # "open" THEN t
    ELSE ReminderLoop(ReminderStep(t, batch[i]), batch, i + 1)

\* the job: count, select the batch, loop, safe_commit; except: rollback
ReminderRun ==
    LET t == ReminderLoop([work |-> notifications, conn |-> "open", pushes |-> pushes],
                          ReminderBatch, 1)
    IN [notifications |-> IF t.conn = "open" THEN t.work ELSE notifications,
        pushes |-> t.pushes,
        outcome |-> IF t.conn = "open" THEN "ok" ELSE "error"]

ReminderOutcome == IF DueReminders = {} THEN "none" ELSE ReminderRun.outcome

CheckAndSendActivityReminders ==
    /\ ~(last.op = "reminder" /\ last.runs >= MaxJobRuns)
    /\ last' = JobRun("reminder", {})
    /\ IF DueReminders = {}
       THEN UNCHANGED <<notifications, pushes>>
       ELSE /\ notifications' = ReminderRun.notifications
            /\ pushes' = ReminderRun.pushes
    /\ UNCHANGED <<role, leads, lead_assignments, lead_notes, lead_stage_history,
                   bd_assignment_history, lead_assignment_history, lead_activities,
                   assignment_settings, now, nops, nedits, lead_targets, inflight, rr_log>>

\* the review lifecycle with the deadline job
Next ==
    \/ NewLead
    \/ nops < MaxOps /\ Accept
    \/ nops < MaxOps /\ Reject
    \/ nops < MaxOps /\ Revert
    \/ nops < MaxOps /\ Resubmit
    \/ Tick
    \/ CheckAndReassignOverdueLeads

Spec == Init /\ [][Next]_vars

\* seed_realistic_data.py, one accepted lead: the lead with its manager, BD and stage, and
\* the manager's acted assignment
SeedAcceptedLeadB(submitter, manager_id, bd_id, stage_id, maxOps) ==
    LET lead_id == Len(leads) + 1 IN
    /\ Len(leads) < MaxLeads
    /\ nops < maxOps
    /\ role[submitter] = "marketer" /\ role[manager_id] = "manager" /\ role[bd_id] = "bd_sales"
    /\ leads' = Append(leads, [Lead(submitter, manager_id) EXCEPT
                                  !.status = "Accepted", !.assigned_bd_id = bd_id,
                                  !.current_stage_id = stage_id])
    /\ lead_assignments' = Append(lead_assignments,
          [Assignment(lead_id, manager_id, RevertDeadlineHours, 0) EXCEPT
              !.status = "acted", !.acted_at = now])
    /\ last' = Last("seed", lead_id)
    /\ nops' = nops + 1
    /\ UNCHANGED <<role, lead_notes, notifications, lead_stage_history, bd_assignment_history,
                   lead_assignment_history, lead_activities, assignment_settings, pushes,
                   now, nedits, lead_targets, inflight, rr_log>>

RRSubmitters == {4}

SeedAcceptedLead(submitter, manager_id, bd_id, stage_id) ==
    SeedAcceptedLeadB(submitter, manager_id, bd_id, stage_id, MaxPipelineOps)

\* the sales pipeline of accepted leads
NextPipeline ==
    \/ \E bd_id \in Users, stage_id \in Stages : SeedAcceptedLead(4, 2, bd_id, stage_id)
    \/ \E actor \in RRSubmitters : NewLeadB(actor, MaxLeads, MaxPipelineOps)
    \/ nops < MaxPipelineOps /\ Accept
    \/ nops < MaxPipelineOps /\ AssignBd
    \/ nops < MaxPipelineOps /\ MoveStage

SpecPipeline == Init /\ [][NextPipeline]_vars

RREditors == {1, 2}
RREdited == {2, 3, 5}

\* the round-robin allocator: submits, direct take_next calls and a changing manager pool
NextRR ==
    \/ \E actor \in RRSubmitters : NewLeadB(actor, MaxTakes, MaxTakes)
    \/ GetNextManager
    \/ \E actor \in RREditors, user_id \in RREdited, new_role \in {"manager", "marketer"} :
          EditUser(actor, user_id, new_role)

SpecRR == Init /\ [][NextRR]_vars

ReminderLeads == 1
ReminderActors == {2, 5}
ReminderTimes == {NULL, 1, 17}

\* activities with reminders, the clock and the reminder job
NextReminder ==
    \/ \E actor \in RRSubmitters : NewLeadB(actor, ReminderLeads, MaxReminderOps)
    \/ \E actor \in ReminderActors, lead_id \in LeadIds, due_at \in {NULL, 17},
          reminder_at \in ReminderTimes, valid \in BOOLEAN :
          AddActivity(actor, lead_id, due_at, reminder_at, valid)
    \/ \E actor \in ReminderActors, lead_id \in LeadIds, activity_id \in 1..MaxActivities :
          ToggleTaskComplete(actor, lead_id, activity_id)
    \/ TickB(MaxReminderNow)
    \/ CheckAndSendActivityReminders

SpecReminder == Init /\ [][NextReminder]_vars

\* ------------------------------------------------- commits and emits failing
\* the messages safe_commit retries on
RetryableErrors == {"database is locked", "deadlock detected"}

\* safe_commit from its attempt-th pass of the loop on. faults[k] is the error the k-th
\* conn.commit() raises, a commit past the end of faults succeeds; intact says whether the
\* transaction still holds the caller's writes (conn.rollback() before a retry drops them)
\* attempts counts the calls of conn.commit(), sleeps lists the time.sleep() delays in ms,
\* error is the exception that leaves the function
RECURSIVE SafeCommitFromRetryAll(_, _, _)
SafeCommitFromRetryAll(faults, attempt, intact) ==
    IF attempt >= MaxRetries
    THEN [returned |-> "False", durable |-> FALSE, attempts |-> 0, sleeps |-> << >>,
          error |-> "none"]
    ELSE IF attempt + 1 > Len(faults)
    THEN [returned |-> "True", durable |-> intact, attempts |-> 1, sleeps |-> << >>,
          error |-> "none"]
    ELSE IF attempt < MaxRetries - 1
    THEN LET r == SafeCommitFromRetryAll(faults, attempt + 1, FALSE)
         IN [r EXCEPT !.attempts = @ + 1, !.sleeps = <<InitialDelayMs * 2^attempt>> \o @]
    ELSE [returned |-> "raised", durable |-> FALSE, attempts |-> 1, sleeps |-> << >>,
          error |-> faults[attempt + 1]]

RECURSIVE SafeCommitFrom(_, _, _)
SafeCommitFrom(faults, attempt, intact) ==
    IF attempt >= MaxRetries
    THEN [returned |-> "False", durable |-> FALSE, attempts |-> 0, sleeps |-> << >>,
          error |-> "none"]
    ELSE IF attempt + 1 > Len(faults)
    THEN [returned |-> "True", durable |-> intact, attempts |-> 1, sleeps |-> << >>,
          error |-> "none"]
    ELSE IF faults[attempt + 1] \in RetryableErrors /\ attempt < MaxRetries - 1
    THEN LET r == SafeCommitFrom(faults, attempt + 1, FALSE)
         IN [r EXCEPT !.attempts = @ + 1, !.sleeps = <<InitialDelayMs * 2^attempt>> \o @]
    ELSE [returned |-> "raised", durable |-> FALSE, attempts |-> 1, sleeps |-> << >>,
          error |-> faults[attempt + 1]]

SafeCommit(faults) == SafeCommitFrom(faults, 0, TRUE)

\* the wrapper of retry_on_db_lock() from its attempt-th pass on: faults[k] is the error
\* the k-th call of func raises, a call past the end of faults returns
RECURSIVE RetryOnDbLockFrom(_, _)
RetryOnDbLockFrom(faults, attempt) ==
    IF attempt >= MaxRetries
    THEN IF MaxRetries + 1 > Len(faults)     \* the call after the loop
         THEN [returned |-> "value", attempts |-> 1, sleeps |-> << >>, error |-> "none"]
         ELSE [returned |-> "raised", attempts |-> 1, sleeps |-> << >>,
               error |-> faults[MaxRetries + 1]]
    ELSE IF attempt + 1 > Len(faults)
    THEN [returned |-> "value", attempts |-> 1, sleeps |-> << >>, error |-> "none"]
    ELSE IF faults[attempt + 1] \in RetryableErrors /\ attempt < MaxRetries - 1
    THEN LET r == RetryOnDbLockFrom(faults, attempt + 1)
         IN [r EXCEPT !.attempts = @ + 1, !.sleeps = <<InitialDelayMs * 2^attempt>> \o @]
    ELSE [returned |-> "raised", attempts |-> 1, sleeps |-> << >>,
          error |-> faults[attempt + 1]]

RetryOnDbLock(faults) == RetryOnDbLockFrom(faults, 0)

\* conn.commit() without a retry
Commit(faults) ==
    IF faults = << >> THEN [returned |-> "None", durable |-> TRUE]
    ELSE [returned |-> "raised", durable |-> FALSE]

\* what socketio.emit does: the room has a client, the room is empty, the call raises
EmitResults == {"delivered", "offline", "raises"}

\* what the commits of one request meet
CommitFaults ==
    {<< >>, <<"deadlock detected">>, [k \in 1..MaxRetries |-> "deadlock detected"],
     <<"server closed the connection unexpectedly">>}

\* lock contention that outlasts the retry budget of safe_commit
LockExhausted == [k \in 1..MaxRetries |-> "deadlock detected"]

\* the class of the error conn.commit() raises on the PostgreSQL backend
CommitErrorClass == "psycopg2.Error"

\* the except clause around safe_commit(conn) in each handler
CaughtAround(op) ==
    IF op \in {"assign_bd", "move_stage"} THEN {"sqlite3.OperationalError"} ELSE {}

\* what the caller is told when safe_commit raises: the 'Database is busy. Please try again.'
\* reply of the except clause, or the 500 page of the error handler
CommitReply(op) ==
    IF CommitErrorClass \in CaughtAround(op) THEN "unavailable" ELSE "failure"

\* accept_lead, reject_lead, revert_lead, resubmit_lead: the writes, then
\* send_realtime_notification, then safe_commit(conn) outside any try, then the success
\* flash. A is the handler when nothing fails, pushesAfter what its emits leave behind
Transition(A, outcome, pushesAfter, op, lead_id, emit, faults) ==
    IF outcome # "ok" THEN Refused
    ELSE IF emit = "raises" THEN Lost(op, lead_id, "failure", pushes)
    ELSE LET c == SafeCommit(faults) IN
         IF c.durable THEN A
         ELSE Lost(op, lead_id, IF c.returned = "raised" THEN CommitReply(op) ELSE "success",
                   pushesAfter)

AcceptLeadF(actor, lead_id, emit, faults) ==
    Transition(AcceptLead(actor, lead_id), AcceptOutcome(actor, lead_id),
               AcceptPushes(lead_id), "accept", lead_id, emit, faults)

RejectLeadF(actor, lead_id, emit, faults) ==
    Transition(RejectLead(actor, lead_id, TRUE), RejectOutcome(actor, lead_id, TRUE),
               RejectPushes(lead_id), "reject", lead_id, emit, faults)

RevertLeadF(actor, lead_id, emit, faults) ==
    Transition(RevertLead(actor, lead_id, TRUE), RevertOutcome(actor, lead_id, TRUE),
               RevertPushes(lead_id), "revert", lead_id, emit, faults)

ResubmitLeadF(actor, lead_id, emit, faults) ==
    Transition(ResubmitLead(actor, lead_id, TRUE), ResubmitOutcome(actor, lead_id, TRUE),
               ResubmitPushes, "resubmit", lead_id, emit, faults)

\* new_lead: the emit comes with an assigned manager only, the commit is a bare conn.commit()
NewLeadF(actor, emit, faults) ==
    LET lead_id == Len(leads) + 1
        targets == IF role[actor] = "marketer"
                   THEN IF ManagerIds # << >>
                        THEN {NewLeadRoundRobinId(ManagerIds,
                                                  assignment_settings.last_assigned_manager_id)}
                        ELSE {}
                   ELSE UsersWithRole("manager") \ {actor}
    IN
    IF NewLeadOutcome(actor) # "ok" THEN Refused
    ELSE /\ Len(leads) < MaxLeads
         /\ nops < MaxFaultOps
         /\ IF emit = "raises" /\ targets # {}
            THEN Lost("submit", lead_id, "failure", pushes)
            ELSE IF Commit(faults).durable
            THEN NewLeadB(actor, MaxLeads, MaxFaultOps)
            ELSE IF targets = {}
            THEN Lost("submit", lead_id, "failure", pushes)
            ELSE \E m \in targets :
                    Lost("submit", lead_id, "failure", Append(pushes, Push(m, "assignment")))

\* update_lead_stage: UPDATE and history INSERT, safe_commit, the broadcast emit, then for a
\* lead of another BD the notification INSERT, a second safe_commit and the emit to the BD.
\* Both commits sit in try blocks that catch sqlite3.OperationalError only
UpdateLeadStageF(actor, lead_id, new_stage_id, emit, faults1, faults2) ==
    IF UpdateLeadStageOutcome(actor, lead_id, new_stage_id) # "ok" THEN Refused
    ELSE LET owner == leads[lead_id].assigned_bd_id
             notify == owner # NULL /\ owner # actor
             c1 == SafeCommit(faults1)
             c2 == SafeCommit(faults2)
             reached2 == c1.returned # "raised" /\ emit # "raises" /\ notify
             told == IF c1.returned = "raised" THEN CommitReply("move_stage")
                     ELSE IF emit = "raises" \/ (reached2 /\ c2.returned = "raised")
                     THEN "failure" ELSE "success"
         IN
    /\ leads' = IF c1.durable
                THEN [leads EXCEPT ![lead_id].current_stage_id = new_stage_id]
                ELSE leads
    /\ lead_stage_history' =
          IF c1.durable
          THEN Append(lead_stage_history,
                      [lead_id |-> lead_id, from_stage_id |-> leads[lead_id].current_stage_id,
                       to_stage_id |-> new_stage_id, changed_by_id |-> actor])
          ELSE lead_stage_history
    /\ notifications' = IF reached2 /\ c2.durable
                        THEN Append(notifications, Notification(owner, lead_id, "stage_moved"))
                        ELSE notifications
    /\ pushes' = IF reached2 /\ c2.returned # "raised"
                 THEN Append(pushes, Push(owner, "stage_moved"))
                 ELSE pushes
    /\ last' = Ended("move_stage", lead_id, told, c1.durable)
    /\ nops' = nops + 1
    /\ UNCHANGED <<role, lead_assignments, lead_notes, bd_assignment_history,
                   lead_assignment_history, lead_activities, assignment_settings, now, nedits, lead_targets, inflight, rr_log>>

FaultSubmitters == {4}
FaultActors == {1, 4, 5}

\* the lifecycle with commits and emits that can fail
NextFaults ==
    \/ \E stage_id \in Stages : SeedAcceptedLeadB(4, 2, 5, stage_id, MaxFaultOps)
    \/ \E actor \in FaultSubmitters, emit \in EmitResults, faults \in CommitFaults :
          NewLeadF(actor, emit, faults)
    \/ /\ nops < MaxFaultOps
       /\ \E actor \in FaultActors, lead_id \in LeadIds, emit \in EmitResults, faults \in CommitFaults :
             AcceptLeadF(actor, lead_id, emit, faults)
    \/ /\ nops < MaxFaultOps
       /\ \E actor \in FaultActors, lead_id \in LeadIds, emit \in EmitResults, faults \in CommitFaults :
             RejectLeadF(actor, lead_id, emit, faults)
    \/ /\ nops < MaxFaultOps
       /\ \E actor \in FaultActors, lead_id \in LeadIds, emit \in EmitResults, faults \in CommitFaults :
             RevertLeadF(actor, lead_id, emit, faults)
    \/ /\ nops < MaxFaultOps
       /\ \E actor \in FaultActors, lead_id \in LeadIds, emit \in EmitResults, faults \in CommitFaults :
             ResubmitLeadF(actor, lead_id, emit, faults)
    \/ /\ nops < MaxFaultOps
       /\ \E actor \in FaultActors, lead_id \in LeadIds, bd \in {4, 5, 6} :
             AssignBdSales(actor, lead_id, bd)
    \/ /\ nops < MaxFaultOps
       /\ \E actor \in FaultActors, lead_id \in LeadIds, st \in Stages, emit \in EmitResults,
             faults1 \in CommitFaults, faults2 \in {<< >>, <<"deadlock detected">>} :
             UpdateLeadStageF(actor, lead_id, st, emit, faults1, faults2)

SpecFaults == Init /\ [][NextFaults]_vars

\* the errors a commit or a wrapped call can raise, and the runs of them one call meets
DbErrors == RetryableErrors \cup {"server closed the connection unexpectedly"}

RECURSIVE SeqsUpTo(_, _)
SeqsUpTo(S, n) ==
    IF n = 0 THEN {<< >>}
    ELSE LET shorter == SeqsUpTo(S, n - 1)
         IN shorter \cup {Append(q, x) : q \in shorter, x \in S}

FaultRuns == SeqsUpTo(DbErrors, MaxFaultRun)

\* a call of safe_commit(conn) on its own
SafeCommitCall(faults) ==
    /\ last' = [op |-> "safe_commit", lead_id |-> NULL, faults |-> faults,
                result |-> SafeCommit(faults)]
    /\ UNCHANGED <<db, pushes, now, nops, nedits, lead_targets, inflight, rr_log>>

\* a call of a function wrapped by retry_on_db_lock()
RetryOnDbLockCall(faults) ==
    /\ last' = [op |-> "retry_on_db_lock", lead_id |-> NULL, faults |-> faults,
                result |-> RetryOnDbLock(faults)]
    /\ UNCHANGED <<db, pushes, now, nops, nedits, lead_targets, inflight, rr_log>>

\* one call on each run of errors
NextRetry ==
    \/ last.op = "init" /\ \E faults \in FaultRuns : SafeCommitCall(faults)
    \/ last.op = "init" /\ \E faults \in FaultRuns : RetryOnDbLockCall(faults)

SpecRetry == Init /\ [][NextRetry]_vars

\* ------------------------------------------------ requests of two workers
Busy(op) == {w \in Workers : inflight[w].op = op}

\* new_lead of a marketer up to its SELECTs: the managers and the pointer it has read
NewLeadBegin(w, actor) ==
    /\ inflight[w] = Idle
    /\ NewLeadOutcome(actor) = "ok"
    /\ role[actor] = "marketer"
    /\ ManagerIds # << >>
    /\ Len(leads) + Cardinality(Busy("submit")) < MaxLeads
    /\ inflight' = [inflight EXCEPT ![w] =
          [op |-> "submit", actor |-> actor, manager_ids |-> ManagerIds,
           last_assigned_id |-> assignment_settings.last_assigned_manager_id]]
    /\ UNCHANGED <<db, pushes, now, last, nops, nedits, lead_targets, rr_log>>

\* new_lead from the choice to the commit: the pointer UPDATE, the INSERTs, conn.commit()
NewLeadEnd(w) ==
    /\ inflight[w].op = "submit"
    /\ LET r == inflight[w]
           id == NewLeadRoundRobinId(r.manager_ids, r.last_assigned_id)
       IN /\ assignment_settings' = [assignment_settings EXCEPT !.last_assigned_manager_id = id]
          /\ rr_log' = LogTake(id)
          /\ NewLeadWrites(r.actor, id, "round-robin")
    /\ inflight' = [inflight EXCEPT ![w] = Idle]
    /\ UNCHANGED <<role, lead_stage_history, bd_assignment_history, lead_assignment_history,
                   lead_activities, now, nedits, lead_targets>>

\* resubmit_lead up to its checks: SELECT * FROM leads, the owner and the status
ResubmitBegin(w, actor, lead_id) ==
    /\ inflight[w] = Idle
    /\ ResubmitOutcome(actor, lead_id, TRUE) = "ok"
    /\ inflight' = [inflight EXCEPT ![w] = [op |-> "resubmit", actor |-> actor, lead_id |-> lead_id]]
    /\ UNCHANGED <<db, pushes, now, last, nops, nedits, lead_targets, rr_log>>

\* UPDATE leads SET status = 'Resubmitted' WHERE id = .., the INSERTs, safe_commit
ResubmitEnd(w) ==
    /\ inflight[w].op = "resubmit"
    /\ ResubmitWrites(inflight[w].actor, inflight[w].lead_id)
    /\ inflight' = [inflight EXCEPT ![w] = Idle]

\* requests started and not yet committed, with the commits so far
Started == nops + Cardinality(Workers \ Busy("idle"))

ConcReviewers == {1}

\* submits and resubmits of two workers, each request in two steps, and rejections
NextConc ==
    \/ Started < MaxConcOps /\ \E w \in Workers, actor \in RRSubmitters : NewLeadBegin(w, actor)
    \/ \E w \in Workers : NewLeadEnd(w)
    \/ /\ Started < MaxConcOps
       /\ \E actor \in ConcReviewers, lead_id \in LeadIds : RejectLead(actor, lead_id, TRUE)
    \/ /\ Started < MaxConcOps
       /\ \E w \in Workers, actor \in RRSubmitters, lead_id \in LeadIds :
             ResubmitBegin(w, actor, lead_id)
    \/ \E w \in Workers : ResubmitEnd(w)

SpecConc == Init /\ [][NextConc]_vars

\* the job up to its batch SELECT: the overdue assignments its cursor fetched
SweepBegin(w) ==
    /\ inflight[w] = Idle
    /\ OverdueAssignments # {}
    /\ inflight' = [inflight EXCEPT ![w] = [op |-> "sweep", batch |-> OverdueBatch]]
    /\ UNCHANGED <<db, pushes, now, last, nops, nedits, lead_targets, rr_log>>

\* the job from its loop over the fetched rows to safe_commit or the rollback
SweepEnd(w) ==
    /\ inflight[w].op = "sweep"
    /\ LET r == SweepRunOn(inflight[w].batch) IN
       /\ last' = [op |-> "sweep", lead_id |-> NULL, runs |-> 1,
                   reassigned |-> {l \in DOMAIN leads : r.tables.leads[l] # leads[l]},
                   told |-> "success", durable |-> r.outcome = "ok",
                   batch |-> inflight[w].batch]
       /\ leads' = r.tables.leads
       /\ lead_assignments' = r.tables.lead_assignments
       /\ lead_assignment_history' = r.tables.lead_assignment_history
       /\ lead_notes' = r.tables.lead_notes
       /\ notifications' = r.tables.notifications
       /\ assignment_settings' = r.tables.assignment_settings
       /\ pushes' = r.pushes
    /\ nops' = nops + 1
    /\ inflight' = [inflight EXCEPT ![w] = Idle]
    /\ UNCHANGED <<role, lead_stage_history, bd_assignment_history, lead_activities, now,
                   nedits, lead_targets, rr_log>>

\* the deadline job in two steps beside submits, accepts and rejections
NextSweepConc ==
    \/ \E actor \in RRSubmitters : Started < MaxSweepOps /\ NewLeadB(actor, MaxLeads, MaxSweepOps)
    \/ Tick
    \/ Started < MaxSweepOps /\ \E w \in Workers : SweepBegin(w)
    \/ \E w \in Workers : SweepEnd(w)
    \/ /\ Started < MaxSweepOps
       /\ \E actor \in {1, 2}, lead_id \in LeadIds : AcceptLead(actor, lead_id)
    \/ /\ Started < MaxSweepOps
       /\ \E actor \in {1, 2}, lead_id \in LeadIds : RejectLead(actor, lead_id, TRUE)

SpecSweepConc == Init /\ [][NextSweepConc]_vars

\* ------------------------------------------------------ the BD rotation
\* a call of peek_next_bd_sales_for_assignment()
PeekNextBdSalesCall ==
    /\ nops < MaxBdOps
    /\ nops' = nops + 1
    /\ assignment_settings' = PeekNextBdSalesForAssignment("open").settings
    /\ last' = Last("peek", NULL)
    /\ UNCHANGED <<role, leads, lead_assignments, lead_notes, notifications, lead_stage_history,
                   bd_assignment_history, lead_assignment_history, lead_activities,
                   pushes, now, nedits, lead_targets, rr_log, inflight>>

\* commit_bd_sales_assignment(bd_sales_id): UPDATE or INSERT the pointer, safe_commit
CommitBdSalesAssignment(bd_sales_id) ==
    /\ nops < MaxBdOps
    /\ nops' = nops + 1
    /\ assignment_settings' = [assignment_settings EXCEPT !.last_assigned_bd_id = bd_sales_id]
    /\ last' = Last("commit_bd", NULL)
    /\ UNCHANGED <<role, leads, lead_assignments, lead_notes, notifications, lead_stage_history,
                   bd_assignment_history, lead_assignment_history, lead_activities,
                   pushes, now, nedits, lead_targets, rr_log, inflight>>

BdEdited == {4, 5, 6}

\* the BD pointer functions under a changing pool of bd_sales users
NextBd ==
    \/ PeekNextBdSalesCall
    \/ \E bd_sales_id \in BdEdited : CommitBdSalesAssignment(bd_sales_id)
    \/ \E user_id \in BdEdited, new_role \in {"bd_sales", "marketer"} : EditUser(1, user_id, new_role)

SpecBd == Init /\ [][NextBd]_vars

\* ------------------------------------------------------- the periodic job
\* a run of check_and_reassign_overdue_leads by the scheduler (IntervalTrigger(minutes=30))
\* that finds overdue assignments; runs in a row are counted up to MaxJobRuns and then
\* from 1 again
PeriodicSweep ==
    /\ OverdueAssignments # {}
    /\ LET r == SweepRun IN
       /\ last' = [JobRun("sweep", {l \in DOMAIN leads : r.tables.leads[l] # leads[l]})
                     EXCEPT !.runs = IF last.op = "sweep" /\ last.runs < MaxJobRuns
                                     THEN last.runs + 1 ELSE 1,
                            !.durable = r.outcome = "ok"]
       /\ leads' = r.tables.leads
       /\ lead_assignments' = r.tables.lead_assignments
       /\ lead_assignment_history' = r.tables.lead_assignment_history
       /\ lead_notes' = r.tables.lead_notes
       /\ notifications' = r.tables.notifications
       /\ assignment_settings' = r.tables.assignment_settings
       /\ pushes' = r.pushes
    /\ UNCHANGED <<role, lead_stage_history, bd_assignment_history, lead_activities, now, nops,
                   nedits, lead_targets, inflight, rr_log>>

\* submits of a marketer, the clock and the periodic job; no manager acts
NextLive ==
    \/ \E actor \in RRSubmitters : NewLeadB(actor, MaxLiveLeads, MaxLiveLeads)
    \/ Tick
    \/ PeriodicSweep

\* the scheduler fires the job again and again
SpecLive == Init /\ [][NextLive]_vars /\ WF_vars(PeriodicSweep)

\* ---------------------------------------------------------------- targets
Target(assigned_by_id, assignee_id, target_count, period_start, period_end) ==
    [assigned_by_id |-> assigned_by_id, assignee_id |-> assignee_id,
     target_count |-> target_count, period_start |-> period_start, period_end |-> period_end]

\* UNIQUE(assignee_id, period_start, period_end)
TargetUnique(assignee_id, period_start, period_end, exclude_id) ==
    \A i \in DOMAIN lead_targets \ {exclude_id} :
       <<lead_targets[i].assignee_id, lead_targets[i].period_start, lead_targets[i].period_end>>
          # <<assignee_id, period_start, period_end>>

\* has_period_overlap(assignee_id, period_start, period_end, exclude_id): get_db() hands
\* back the connection of the request, the SELECT runs on it, and conn.close() closes it
HasPeriodOverlap(conn, assignee_id, period_start, period_end, exclude_id) ==
    [result |-> \E i \in DOMAIN lead_targets :
                   /\ lead_targets[i].assignee_id = assignee_id
                   /\ \/ /\ lead_targets[i].period_start <= period_end
                         /\ lead_targets[i].period_end >= period_end
                      \/ /\ lead_targets[i].period_start <= period_start
                         /\ lead_targets[i].period_end >= period_start
                      \/ /\ lead_targets[i].period_start >= period_start
                         /\ lead_targets[i].period_end <= period_end
                   /\ exclude_id = NULL \/ i # exclude_id,
     conn |-> "closed"]

\* form.assignee.choices: the managers for an admin, the marketers for a manager
AssigneeChoices(actor) ==
    IF role[actor] = "admin" THEN UsersWithRole("manager") ELSE UsersWithRole("marketer")

\* new_target: the form, the period check, the overlap check, the first execute after it
NewTargetOutcome(actor, assignee, period_start, period_end) ==
    IF ~RoleRequired(actor, {"admin", "manager"}) THEN "forbidden"
    ELSE IF assignee \notin AssigneeChoices(actor) THEN "form"
    ELSE IF period_end <= period_start THEN "form"
    ELSE LET o == HasPeriodOverlap("open", assignee, period_start, period_end, NULL) IN
         IF o.result THEN "overlap"
         ELSE IF o.conn # "open"
         THEN "error"   \* cursor.execute on the closed connection raises InterfaceError
         ELSE IF ~TargetUnique(assignee, period_start, period_end, NULL) THEN "error"
         ELSE "ok"

NewTarget(actor, assignee, target_count, period_start, period_end) ==
    LET outcome == NewTargetOutcome(actor, assignee, period_start, period_end) IN
    IF outcome = "error" THEN Lost("new_target", NULL, "failure", pushes)
    ELSE IF outcome # "ok" THEN Refused
    ELSE
    /\ lead_targets' = Append(lead_targets,
                              Target(actor, assignee, target_count, period_start, period_end))
    /\ last' = Last("new_target", NULL)
    /\ nops' = nops + 1
    /\ UNCHANGED <<db, pushes, now, nedits, inflight, rr_log>>

\* edit_target: the lookup, the permission, the form, the overlap check without the
\* target itself, the first execute after it
EditTargetOutcome(actor, target_id, assignee, period_start, period_end) ==
    IF ~RoleRequired(actor, {"admin", "manager"}) THEN "forbidden"
    ELSE IF target_id \notin DOMAIN lead_targets THEN "not_found"
    ELSE IF role[actor] # "admin" /\ lead_targets[target_id].assigned_by_id # actor
    THEN "forbidden"
    ELSE IF assignee \notin AssigneeChoices(actor) THEN "form"
    ELSE IF period_end <= period_start THEN "form"
    ELSE LET o == HasPeriodOverlap("open", assignee, period_start, period_end, target_id) IN
         IF o.result THEN "overlap"
         ELSE IF o.conn # "open"
         THEN "error"   \* cursor.execute on the closed connection raises InterfaceError
         ELSE IF ~TargetUnique(assignee, period_start, period_end, target_id) THEN "error"
         ELSE "ok"

EditTarget(actor, target_id, assignee, target_count, period_start, period_end) ==
    LET outcome == EditTargetOutcome(actor, target_id, assignee, period_start, period_end) IN
    IF outcome = "error" THEN Lost("edit_target", NULL, "failure", pushes)
    ELSE IF outcome # "ok" THEN Refused
    ELSE
    /\ lead_targets' = [lead_targets EXCEPT ![target_id] =
                           [@ EXCEPT !.assignee_id = assignee, !.target_count = target_count,
                                     !.period_start = period_start, !.period_end = period_end]]
    /\ last' = Last("edit_target", NULL)
    /\ nops' = nops + 1
    /\ UNCHANGED <<db, pushes, now, nedits, inflight, rr_log>>

\* create_targets of the seed script: targets of an admin for managers and of managers
\* for marketers, inserted on the script's own connection
SeedTarget(assigned_by_id, assignee_id, target_count, period_start, period_end) ==
    /\ \/ role[assigned_by_id] = "admin" /\ role[assignee_id] = "manager"
       \/ role[assigned_by_id] = "manager" /\ role[assignee_id] = "marketer"
    /\ period_start < period_end
    /\ TargetUnique(assignee_id, period_start, period_end, NULL)
    /\ lead_targets' = Append(lead_targets,
                              Target(assigned_by_id, assignee_id, target_count,
                                     period_start, period_end))
    /\ last' = Last("seed_target", NULL)
    /\ nops' = nops + 1
    /\ UNCHANGED <<db, pushes, now, nedits, inflight, rr_log>>

Days == 1..MaxDay
NextTargets ==
    \/ /\ nops < MaxTargetOps
       /\ \E by \in Users, assignee \in Users, n \in {10}, ps \in Days, pe \in Days :
             SeedTarget(by, assignee, n, ps, pe)
    \/ /\ nops < MaxTargetOps
       /\ \E actor \in {1, 2, 4}, assignee \in Users, n \in {10}, ps \in Days, pe \in Days :
             NewTarget(actor, assignee, n, ps, pe)
    \/ /\ nops < MaxTargetOps
       /\ \E actor \in {1, 2, 4}, id \in (1..MaxTargetOps), assignee \in Users, n \in {10},
             ps \in Days, pe \in Days :
             EditTarget(actor, id, assignee, n, ps, pe)

SpecTargets == Init /\ [][NextTargets]_vars

\* ------------------------------------------------------------ soft delete
\* the soft delete of a lead by an admin: the flag is set, the row stays
SoftDeleteOutcome(actor, lead_id) ==
    IF ~RoleRequired(actor, {"admin"}) THEN "forbidden"
    ELSE IF ~LeadExists(lead_id) THEN "not_found"
    ELSE IF leads[lead_id].is_deleted THEN "not_found"
    ELSE "ok"

SoftDeleteLead(actor, lead_id) ==
    IF SoftDeleteOutcome(actor, lead_id) # "ok" THEN Refused
    ELSE
    /\ leads' = [leads EXCEPT ![lead_id].is_deleted = TRUE]
    /\ last' = Last("soft_delete", lead_id)
    /\ nops' = nops + 1
    /\ UNCHANGED <<role, lead_assignments, lead_notes, notifications, lead_stage_history,
                   bd_assignment_history, lead_assignment_history, lead_activities,
                   assignment_settings, pushes, now, nedits, lead_targets, rr_log, inflight>>

\* the lifecycle and the deadline job with leads that can be soft-deleted
NextSoftDelete ==
    \/ \E actor \in RRSubmitters : NewLeadB(actor, MaxLeads, MaxSoftOps)
    \/ nops < MaxSoftOps /\ \E actor \in {1, 4}, lead_id \in LeadIds : SoftDeleteLead(actor, lead_id)
    \/ nops < MaxSoftOps /\ \E actor \in {1, 4}, lead_id \in LeadIds : AcceptLead(actor, lead_id)
    \/ nops < MaxSoftOps /\ \E actor \in {1, 4}, lead_id \in LeadIds : RejectLead(actor, lead_id, TRUE)
    \/ nops < MaxSoftOps /\ \E actor \in {1, 4}, lead_id \in LeadIds : RevertLead(actor, lead_id, TRUE)
    \/ nops < MaxSoftOps /\ \E actor \in {1, 4}, lead_id \in LeadIds : ResubmitLead(actor, lead_id, TRUE)
    \/ /\ nops < MaxSoftOps
       /\ \E actor \in {1, 4}, lead_id \in LeadIds : AssignBdSales(actor, lead_id, 5)
    \/ /\ nops < MaxSoftOps
       /\ \E actor \in {1, 4}, lead_id \in LeadIds, st \in Stages : UpdateLeadStage(actor, lead_id, st)
    \/ Tick
    \/ CheckAndReassignOverdueLeads

SpecSoftDelete == Init /\ [][NextSoftDelete]_vars

\* ================================================================ claims
PendingAssignments(lead_id) ==
    {i \in DOMAIN lead_assignments :
        /\ lead_assignments[i].lead_id = lead_id
        /\ lead_assignments[i].status = "pending"}

\* C1: every lead has at most one lead_assignments row with status 'pending', after any
\* sequence of submit, accept, reject, revert, resubmit and runs of the deadline job.
C1_AtMostOnePending ==
    \A l \in DOMAIN leads : Cardinality(PendingAssignments(l)) <= 1

\* the rows of the transition table: the statuses an event is legal from
LegalFrom(event, lead) ==
    CASE event \in {"accept", "reject"} -> lead.status \in {"Pending", "Resubmitted"}
      [] event = "revert" -> lead.status = "Accepted"
      [] event = "resubmit" -> lead.status = "Rejected"
      [] event = "assign_bd" -> lead.status = "Accepted"
      [] event = "move_stage" -> lead.status = "Accepted" /\ lead.assigned_bd_id # NULL

\* the outcome of an event for an actor whose role the route admits and a well-formed request
EventOutcome(event, actor, l) ==
    CASE event = "accept" -> AcceptOutcome(actor, l)
      [] event = "reject" -> RejectOutcome(actor, l, TRUE)
      [] event = "revert" -> RevertOutcome(actor, l, TRUE)
      [] event = "resubmit" -> ResubmitOutcome(actor, l, TRUE)
      [] event = "assign_bd" -> AssignBdOutcome(actor, l, Min(UsersWithRole("bd_sales")))
      [] event = "move_stage" -> UpdateLeadStageOutcome(actor, l, FirstStageId)

EventActors(event, l) ==
    CASE event \in {"accept", "reject", "revert"} -> UsersWithRole("admin") \cup UsersWithRole("manager")
      [] event = "resubmit" -> {leads[l].submitted_by_user_id}
      [] event \in {"assign_bd", "move_stage"} -> UsersWithRole("admin") \cup UsersWithRole("manager")

Events == {"accept", "reject", "revert", "resubmit", "assign_bd", "move_stage"}

AuditTrail == <<lead_notes, lead_stage_history, notifications, bd_assignment_history,
                lead_assignment_history>>

\* C2: an event invoked on a lead whose status is not in the event's row of the transition
\* table is refused with InvalidState, and a request that was illegal leaves the lead's
\* status, its assignment rows and its audit rows unchanged.
C2_IllegalEventRefused ==
    /\ [](\A l \in DOMAIN leads : \A e \in Events : \A actor \in EventActors(e, l) :
            ~LegalFrom(e, leads[l]) => EventOutcome(e, actor, l) = "invalid_state")
    /\ [][\A l \in DOMAIN leads :
            (/\ last'.lead_id = l
             /\ last'.op \in Events
             /\ ~LegalFrom(last'.op, leads[l]))
            => /\ leads'[l].status = leads[l].status
               /\ lead_assignments' = lead_assignments
               /\ AuditTrail' = AuditTrail]_vars

\* the id after x in ascending order of the pool, wrapping from the largest to the smallest
CyclicSucc(pool, x) ==
    IF \E y \in pool : y > x THEN Min({y \in pool : y > x}) ELSE Min(pool)

\* C3: with a fixed pool of N manager ids and no other writer of the pointer, consecutive
\* take_next calls return the ids in ascending order starting just after the stored pointer,
\* wrapping from the largest id to the smallest; the first N calls return every id of the
\* pool exactly once and call N+1 returns what call 1 returned.
C3_RoundRobinFair ==
    LET pool == rr_log.pool
        t == rr_log.taken
        N == Cardinality(pool)
    IN N > 0 =>
       /\ (Len(t) >= 1 /\ rr_log.start \in pool) => t[1] = CyclicSucc(pool, rr_log.start)
       /\ \A i \in 1..(Len(t) - 1) : t[i + 1] = CyclicSucc(pool, t[i])
       /\ Len(t) >= N => /\ {t[i] : i \in 1..N} = pool
                         /\ \A i, j \in 1..N : t[i] = t[j] => i = j
       /\ Len(t) >= N + 1 => t[N + 1] = t[1]

C3_Witness ==
    /\ Cardinality(rr_log.pool) >= 2
    /\ rr_log.start \in rr_log.pool
    /\ Len(rr_log.taken) >= Cardinality(rr_log.pool) + 1

\* C4: when the stored manager pointer is null or names an id outside the pool, the next
\* take_next returns the smallest id of the pool and stores it as the new pointer.
C4_StalePointerRestarts ==
    LET pool == rr_log.pool
        t == rr_log.taken
    IN (pool # {} /\ Len(t) >= 1 /\ (rr_log.start = NULL \/ rr_log.start \notin pool))
       => /\ t[1] = Min(pool)
          /\ Len(t) = 1 => assignment_settings.last_assigned_manager_id = Min(pool)

C4_Witness ==
    /\ rr_log.start # NULL
    /\ rr_log.start \notin rr_log.pool
    /\ \E x \in rr_log.pool : x < rr_log.start
    /\ \E y \in rr_log.pool : y > rr_log.start
    /\ Len(rr_log.taken) = 1

\* C8: a marketer's submit with an empty manager pool succeeds: the lead is created Pending
\* with current_manager_id null, no assignment row, no notification row and no push.
C8_SubmitWithoutManagers ==
    /\ [](UsersWithRole("manager") = {} =>
            \A m \in UsersWithRole("marketer") : NewLeadOutcome(m) = "ok")
    /\ [][(/\ UsersWithRole("manager") = {}
           /\ last'.op = "submit"
           /\ Len(leads') = Len(leads) + 1
           /\ role[leads'[Len(leads')].submitted_by_user_id] = "marketer")
          => /\ leads'[Len(leads')].status = "Pending"
             /\ leads'[Len(leads')].current_manager_id = NULL
             /\ lead_assignments' = lead_assignments
             /\ notifications' = notifications
             /\ pushes' = pushes]_vars

C8_Witness ==
    /\ UsersWithRole("manager") = {}
    /\ last.op = "submit"
    /\ role[leads[last.lead_id].submitted_by_user_id] = "marketer"
    /\ leads[last.lead_id].current_manager_id = NULL

\* rows of a table that belong to a lead
RowsOf(table, l) == {i \in DOMAIN table : table[i].lead_id = l}

\* C5: two runs of the deadline job in immediate succession reassign each overdue lead at
\* most once: the second run inserts no assignment, history, note or notification row for a
\* lead the first run reassigned, and no lead is reassigned by both runs.
C5_SweepTwiceReassignsOnce ==
    [][(last.op = "sweep" /\ last'.op = "sweep" /\ last'.runs = last.runs + 1)
       => \A l \in DOMAIN leads :
            /\ ~(l \in last.reassigned /\ l \in last'.reassigned)
            /\ l \in last.reassigned =>
                 /\ RowsOf(lead_assignments', l) = RowsOf(lead_assignments, l)
                 /\ RowsOf(lead_assignment_history', l) = RowsOf(lead_assignment_history, l)
                 /\ RowsOf(lead_notes', l) = RowsOf(lead_notes, l)
                 /\ RowsOf(notifications', l) = RowsOf(notifications, l)
            /\ Cardinality(RowsOf(lead_assignments', l))
                 <= Cardinality(RowsOf(lead_assignments, l)) + (IF l \in last.reassigned THEN 0 ELSE 1)]_vars

C5_Witness ==
    /\ last.op = "sweep"
    /\ last.runs = 2
    /\ OverdueAssignments # {}

\* the overdue pending assignments of Pending leads whose manager A is in a pool that holds
\* another manager
C6Cases ==
    {i \in OverdueAssignments :
        /\ leads[lead_assignments[i].lead_id].status = "Pending"
        /\ lead_assignments[i].manager_id \in UsersWithRole("manager")
        /\ UsersWithRole("manager") \ {lead_assignments[i].manager_id} # {}
        /\ PendingAssignments(lead_assignments[i].lead_id) = {i}}

\* C6: a run of the deadline job on a Pending lead whose pending assignment to manager A is
\* overdue, with A and another manager in the pool, commits a new pending assignment to a
\* manager other than A with deadline now + 4 hours, sets current_manager_id to that manager,
\* leaves the lead Pending and inserts exactly two notifications: one for A, one for the new
\* manager.
C6_SweepReassignsOverdue ==
    [][(last'.op = "sweep" /\ last' # last)
       => \A i \in C6Cases :
            LET l == lead_assignments[i].lead_id
                A == lead_assignments[i].manager_id
                added == RowsOf(lead_assignments', l) \ RowsOf(lead_assignments, l)
                notes == RowsOf(notifications', l) \ RowsOf(notifications, l)
            IN /\ Cardinality(added) = 1
               /\ \A j \in added :
                    /\ lead_assignments'[j].manager_id \in UsersWithRole("manager") \ {A}
                    /\ lead_assignments'[j].status = "pending"
                    /\ lead_assignments'[j].deadline_at = now + SweepDeadlineHours
                    /\ leads'[l].current_manager_id = lead_assignments'[j].manager_id
                    /\ {notifications'[n].user_id : n \in notes} = {A, lead_assignments'[j].manager_id}
               /\ leads'[l].status = "Pending"
               /\ Cardinality(notes) = 2]_vars

\* C9: on an Accepted lead assigned to BD X, move_stage by X changes current_stage_id, appends
\* exactly one lead_stage_history row and creates no notification; move_stage by another
\* bd_sales user is refused as Forbidden and leaves stage and history unchanged.
C9_MoveStageByOwner ==
    /\ [](\A l \in DOMAIN leads : \A st \in Stages : \A u \in UsersWithRole("bd_sales") :
            (leads[l].status = "Accepted" /\ leads[l].assigned_bd_id # NULL)
            => UpdateLeadStageOutcome(u, l, st) =
                  IF u = leads[l].assigned_bd_id THEN "ok" ELSE "forbidden")
    /\ [][\A l \in DOMAIN leads :
            (/\ last'.op = "move_stage"
             /\ last'.lead_id = l
             /\ leads[l].status = "Accepted"
             /\ leads[l].assigned_bd_id # NULL
             /\ Len(lead_stage_history') > Len(lead_stage_history)
             /\ lead_stage_history'[Len(lead_stage_history')].changed_by_id = leads[l].assigned_bd_id)
            => /\ Len(lead_stage_history') = Len(lead_stage_history) + 1
               /\ SubSeq(lead_stage_history', 1, Len(lead_stage_history)) = lead_stage_history
               /\ lead_stage_history'[Len(lead_stage_history')].lead_id = l
               /\ lead_stage_history'[Len(lead_stage_history')].from_stage_id = leads[l].current_stage_id
               /\ leads'[l].current_stage_id = lead_stage_history'[Len(lead_stage_history')].to_stage_id
               /\ notifications' = notifications
               /\ pushes' = pushes]_vars

C9_Witness ==
    /\ last.op = "move_stage"
    /\ leads[last.lead_id].status = "Accepted"
    /\ leads[last.lead_id].assigned_bd_id # NULL
    /\ lead_stage_history[Len(lead_stage_history)].changed_by_id = leads[last.lead_id].assigned_bd_id
    /\ lead_stage_history[Len(lead_stage_history)].from_stage_id
          # lead_stage_history[Len(lead_stage_history)].to_stage_id
    /\ UsersWithRole("bd_sales") \ {leads[last.lead_id].assigned_bd_id} # {}

\* C10: resubmit succeeds only when the lead is Rejected and the actor is its submitter; a
\* second resubmit directly after a successful one is refused with InvalidState and adds no
\* note and no notification.
C10_ResubmitOnlyFromRejected ==
    /\ [](\A l \in DOMAIN leads : \A u \in Users : \A valid \in BOOLEAN :
            /\ ResubmitOutcome(u, l, valid) = "ok"
                 => leads[l].status = "Rejected" /\ u = leads[l].submitted_by_user_id
            /\ (last.op = "resubmit" /\ last.lead_id = l /\ u = leads[l].submitted_by_user_id)
                 => ResubmitOutcome(u, l, TRUE) = "invalid_state")
    /\ [][\A l \in DOMAIN leads :
            /\ (last'.op = "resubmit" /\ last'.lead_id = l /\ last' # last)
                 => /\ leads[l].status = "Rejected"
                    /\ lead_notes'[Len(lead_notes')].author_user_id = leads[l].submitted_by_user_id
            /\ (last.op = "resubmit" /\ last.lead_id = l /\ last' = last)
                 => /\ lead_notes' = lead_notes
                    /\ notifications' = notifications
                    /\ pushes' = pushes]_vars

C10_Witness ==
    /\ last.op = "resubmit"
    /\ leads[last.lead_id].status = "Resubmitted"
    /\ lead_notes[Len(lead_notes)].note_type = "resubmission"

\* today's notification rows of an activity's actor that carry the activity's tag
RemindersToday(rows, i) ==
    {n \in DOMAIN rows :
        /\ rows[n].user_id = lead_activities[i].actor_id
        /\ rows[n].tag = i
        /\ rows[n].created_date = Day(now)}

\* C7: two runs of the reminder job in succession against the same due, uncompleted activity
\* leave exactly one notification row for the activity's actor, not two and not none.
C7_ReminderTwiceNotifiesOnce ==
    [][(last.op = "reminder" /\ last'.op = "reminder" /\ last'.runs = last.runs + 1)
       => \A i \in DueReminders : Cardinality(RemindersToday(notifications', i)) = 1]_vars
\* a step of a request that reached its writes
Reached(ops) == nops' = nops + 1 /\ last'.op \in ops

\* C11: every lifecycle transition is one atomic unit, also when a commit fails: the lead
\* update, its audit rows and its notification rows are all committed or none of them is.
\* For submit, accept, reject, revert and resubmit the note and the notification are
\* written together and the lead changes only with them; for assign_bd the lead and its BD
\* history; for move_stage the stage history and, on a lead of another BD, the owner's
\* notification.
C11_TransitionAtomic ==
    [][/\ Reached({"submit", "accept", "reject", "revert", "resubmit"})
          => /\ (lead_notes' # lead_notes) <=> (notifications' # notifications)
             /\ (leads' # leads) => (lead_notes' # lead_notes)
       /\ Reached({"assign_bd"})
          => ((leads' # leads) <=> (bd_assignment_history' # bd_assignment_history))
       /\ Reached({"move_stage"})
          => LET owner == leads[last'.lead_id].assigned_bd_id
                 moved == lead_stage_history' # lead_stage_history
                 notified == notifications' # notifications
             IN /\ notified => moved
                /\ (/\ moved
                    /\ owner # NULL
                    /\ lead_stage_history'[Len(lead_stage_history')].changed_by_id # owner)
                   => notified]_vars

TransitionOps == {"accept", "reject", "revert", "resubmit"}

\* C12: when a commit meets a transient lock or deadlock error, the retry ends in one of two
\* outcomes: the writes are committed and the caller is told success, or nothing is committed
\* and the caller is told failure. safe_commit never reports success for writes that were
\* rolled back. Every transition appends rows, so told success <=> the tables changed.
C12_SuccessMeansCommitted ==
    [][Reached(TransitionOps) => ((last'.told = "success") <=> (db' # db))]_vars

\* the handlers that push before their commit, with a commit that meets no error
PushThenCommit(actor, lead_id, emit) ==
    \/ AcceptOutcome(actor, lead_id) = "ok" /\ AcceptLeadF(actor, lead_id, emit, << >>)
    \/ RejectOutcome(actor, lead_id, TRUE) = "ok" /\ RejectLeadF(actor, lead_id, emit, << >>)
    \/ RevertOutcome(actor, lead_id, TRUE) = "ok" /\ RevertLeadF(actor, lead_id, emit, << >>)
    \/ ResubmitOutcome(actor, lead_id, TRUE) = "ok" /\ ResubmitLeadF(actor, lead_id, emit, << >>)

\* C17: a failing real-time push, an emit that raises or a user who is offline, never makes
\* a lifecycle transition fail: with a commit that meets no error the transition's rows are
\* written and the caller is told success whatever the emit does.
C17_PushFailureHarmless ==
    [][\A actor \in FaultActors, lead_id \in LeadIds, emit \in EmitResults :
          PushThenCommit(actor, lead_id, emit)
             => last'.told = "success" /\ db' # db]_vars
\* the job's transaction when its loop starts
SweepTransaction ==
    [work |-> SweepTables, committed |-> SweepTables, conn |-> "open", pushes |-> pushes]

\* C13: take_next advances the pointer inside the caller's transaction, so the advance is
\* durable exactly when the assignment commits: in the deadline sweep the call neither
\* commits nor closes the job's connection, and a submit that does not commit leaves
\* last_assigned_manager_id as it was.
C13_TakeNextInCallersTransaction ==
    /\ [](OverdueAssignments # {} /\ ManagerIds # << >>
            => LET g == GetNextManagerForAssignment(SweepTransaction, TRUE)
               IN /\ g.t.conn = "open"
                  /\ g.t.committed = SweepTransaction.committed)
    /\ [][last'.op = "submit" /\ leads' = leads
            => assignment_settings' = assignment_settings]_vars
\* lead_assignments rows written by submits, in the order of their commits
InitialAssignments == SelectSeq(lead_assignments, LAMBDA a : a.is_initial_assignment = 1)

\* C14: two marketers submit concurrently with at least two managers in the pool: in no
\* interleaving do both take the same candidate; the leads go to two consecutive managers of
\* the rotation, and the pointer ends at the later one.
C14_ConcurrentSubmitsDistinct ==
    Len(ManagerIds) >= 2 =>
       /\ \A i \in 1..(Len(InitialAssignments) - 1) :
             InitialAssignments[i + 1].manager_id
                = CyclicSucc(Range(ManagerIds), InitialAssignments[i].manager_id)
       /\ InitialAssignments # << >> =>
             assignment_settings.last_assigned_manager_id
                = InitialAssignments[Len(InitialAssignments)].manager_id

NotesOf(lead_id, types) ==
    {i \in DOMAIN lead_notes : lead_notes[i].lead_id = lead_id /\ lead_notes[i].note_type \in types}

\* C15: conflicting transitions on one lead are serialized, the result is that of some
\* sequential execution, and of two concurrent resubmits exactly one succeeds. A resubmit
\* succeeds from Rejected only, so sequentially a lead has no more resubmissions than
\* rejections and reversions.
C15_ResubmitsSerialized ==
    \A l \in DOMAIN leads :
       Cardinality(NotesOf(l, {"resubmission"}))
          <= Cardinality(NotesOf(l, {"rejection", "reversion"}))
\* the rows of the batch whose iteration the loop starts: an exception in an iteration
\* leaves the loop for the except branch
RECURSIVE SweepAttempts(_, _, _)
SweepAttempts(t, batch, i) ==
    IF i > Len(batch) \/ t.conn # "open" THEN {}
    ELSE {batch[i]} \cup SweepAttempts(SweepStep(t, batch[i]), batch, i + 1)

\* C16: in a batch of the deadline sweep a failure on one lead does not keep the others from
\* being reassigned and committed: every lead is processed in a transaction of its own, so
\* every row of the batch is attempted, and every row whose own iteration goes through is
\* reassigned by the run, whatever happened to the rows before it.
C16_SweepPerLeadTransaction ==
    [][(last'.op = "sweep" /\ last' # last /\ Len(OverdueBatch) >= 2)
       => /\ SweepAttempts(SweepTransaction, OverdueBatch, 1) = Range(OverdueBatch)
          /\ \A a \in Range(OverdueBatch) :
                LET t == SweepStep(SweepTransaction, a) IN
                (t.conn = "open" /\ t.work # SweepTables)
                   => lead_assignments[a].lead_id \in last'.reassigned]_vars
BdPool == UsersWithRole("bd_sales")

\* C18: peek_next_bd_sales_for_assignment never changes last_assigned_bd_id or
\* last_assigned_manager_id, and returns the id after the pointer in ascending id order,
\* wrapping from the largest to the smallest, the smallest id when the pointer is null or not
\* in the pool, and no candidate when the pool is empty.
C18_PeekReadOnlySuccessor ==
    /\ [](PeekNextBdSalesForAssignment("open").id =
            IF BdPool = {} THEN NULL
            ELSE IF assignment_settings.last_assigned_bd_id \in BdPool
            THEN CyclicSucc(BdPool, assignment_settings.last_assigned_bd_id)
            ELSE Min(BdPool))
    /\ [][last'.op = "peek" => assignment_settings' = assignment_settings]_vars

\* a call with the pointer on the largest id of a pool of two or more
C18_Witness ==
    /\ last.op = "peek"
    /\ Cardinality(BdPool) >= 2
    /\ assignment_settings.last_assigned_bd_id \in BdPool
    /\ \A u \in BdPool : u <= assignment_settings.last_assigned_bd_id
\* C19: after assign_bd assigns a lead to BD X, last_assigned_bd_id is X when X differs
\* from the lead's prior BD, so that the next peek returns the id following X, and the
\* pointer is unchanged when X is the prior BD. A request that passes the handler's checks
\* assigns the lead.
C19_AssignBdMovesPointer ==
    [][\A actor \in Users, lead_id \in LeadIds, bd \in Users :
          (/\ AssignBdOutcome(actor, lead_id, bd) \in {"ok", "error"}
           /\ AssignBdSales(actor, lead_id, bd))
             => /\ leads'[lead_id].assigned_bd_id = bd
                /\ IF bd # leads[lead_id].assigned_bd_id
                   THEN /\ assignment_settings'.last_assigned_bd_id = bd
                        /\ PeekNextBdSales' = CyclicSucc(BdPool, bd)
                   ELSE assignment_settings'.last_assigned_bd_id
                           = assignment_settings.last_assigned_bd_id]_vars

\* C20: for every lead, assigned_bd_id and current_stage_id are both null or both set, after
\* any sequence of assign_bd, move_stage, revert and user deletion.
C20_BdAndStageTogether ==
    \A l \in DOMAIN leads :
       (leads[l].assigned_bd_id = NULL) <=> (leads[l].current_stage_id = NULL)
\* the managers named on the pending assignments of a lead
PendingManagers(lead_id) == {lead_assignments[i].manager_id : i \in PendingAssignments(lead_id)}

\* C21: accept of a Pending or Resubmitted lead succeeds only for an admin or the manager
\* named on the lead's pending assignment; accept by any other manager is refused as
\* Forbidden and changes neither the lead nor its assignment rows.
C21_AcceptOnlyByAssignee ==
    /\ [](\A l \in DOMAIN leads : \A actor \in UsersWithRole("manager") :
            (leads[l].status \in {"Pending", "Resubmitted"} /\ actor \notin PendingManagers(l))
               => AcceptOutcome(actor, l) = "forbidden")
    /\ [][\A l \in DOMAIN leads : \A actor \in UsersWithRole("manager") :
            (/\ leads[l].status \in {"Pending", "Resubmitted"}
             /\ actor \notin PendingManagers(l)
             /\ AcceptLead(actor, l))
               => leads' = leads /\ lead_assignments' = lead_assignments]_vars
\* C22: a soft-deleted lead is excluded from every transition and from the deadline sweep:
\* accept, reject, revert, resubmit, assign_bd and move_stage on it are refused and leave it
\* unchanged, and the sweep never reassigns it.
C22_SoftDeletedExcluded ==
    /\ [](\A l \in DOMAIN leads : \A e \in Events : \A actor \in EventActors(e, l) :
            leads[l].is_deleted => EventOutcome(e, actor, l) \notin {"ok", "error"})
    /\ [][\A l \in DOMAIN leads :
            leads[l].is_deleted
               => /\ leads'[l] = leads[l]
                  /\ RowsOf(lead_assignments', l) = RowsOf(lead_assignments, l)
                  /\ RowsOf(lead_notes', l) = RowsOf(lead_notes, l)]_vars

\* a transition whose commit meets lock contention on every attempt of the retry budget
LockExhaustedStep ==
    \E actor \in FaultActors, lead_id \in DOMAIN leads, emit \in EmitResults \ {"raises"} :
       \/ AcceptOutcome(actor, lead_id) = "ok" /\ AcceptLeadF(actor, lead_id, emit, LockExhausted)
       \/ /\ RejectOutcome(actor, lead_id, TRUE) = "ok"
          /\ RejectLeadF(actor, lead_id, emit, LockExhausted)
       \/ /\ RevertOutcome(actor, lead_id, TRUE) = "ok"
          /\ RevertLeadF(actor, lead_id, emit, LockExhausted)
       \/ /\ ResubmitOutcome(actor, lead_id, TRUE) = "ok"
          /\ ResubmitLeadF(actor, lead_id, emit, LockExhausted)
       \/ \E st \in Stages :
             /\ UpdateLeadStageOutcome(actor, lead_id, st) = "ok"
             /\ UpdateLeadStageF(actor, lead_id, st, emit, LockExhausted, << >>)

\* C23: when the commit of a lifecycle transition still fails on lock contention after the
\* retry budget is used up, the caller receives the specific 'try again' (Unavailable)
\* outcome, which differs from Forbidden and InvalidState, and no part of the transition
\* is applied.
C23_ExhaustedRetriesUnavailable ==
    [][LockExhaustedStep => last'.told = "unavailable" /\ db' = db]_vars

\* an accept the lifecycle permits: by an admin or by the manager the lead is pending with
PermittedAccept(actor, l) ==
    /\ leads[l].status \in {"Pending", "Resubmitted"}
    /\ role[actor] = "admin" \/ actor \in PendingManagers(l)
    /\ AcceptOutcome(actor, l) = "ok"
    /\ AcceptLead(actor, l)

\* C24: after a successful accept by a permitted actor (the assigned manager or an admin) the
\* lead has no lead_assignments row in status 'pending': the row that was pending is 'acted'
\* and its acted_at is set.
C24_AcceptClosesPending ==
    [][\A l \in DOMAIN leads : \A actor \in Users :
          PermittedAccept(actor, l)
             => /\ PendingAssignments(l)' = {}
                /\ \A i \in PendingAssignments(l) :
                      /\ lead_assignments'[i].status = "acted"
                      /\ lead_assignments'[i].acted_at = now]_vars

\* the leads of the rows a finished run of the job had fetched
SweptLeads == {lead_assignments[a].lead_id : a \in Range(last.batch)}

\* C25: the sweep reassigns only for an assignment that is pending and overdue and only while
\* the lead is Pending or Resubmitted: however a run of the sweep interleaves with accepts and
\* rejections, it commits no reassignment for a lead that is Accepted or Rejected when it commits.
C25_NoReassignAfterDecision ==
    [][\A w \in Workers : SweepEnd(w) =>
          \A l \in DOMAIN leads :
             \/ /\ RowsOf(lead_assignments', l) = RowsOf(lead_assignments, l)
                /\ RowsOf(lead_assignment_history', l) = RowsOf(lead_assignment_history, l)
                /\ leads'[l] = leads[l]
             \/ /\ leads[l].status \in {"Pending", "Resubmitted"}
                /\ \E i \in OverdueAssignments : lead_assignments[i].lead_id = l]_vars

\* a run of the sweep has ended that had fetched the assignment of a lead which was accepted
\* or rejected before the run came to its commit
C25_Witness ==
    /\ last.op = "sweep"
    /\ "batch" \in DOMAIN last
    /\ \E l \in SweptLeads : leads[l].status \in {"Accepted", "Rejected"}

\* C26: the commit retry always terminates: safe_commit and retry_on_db_lock make at most 5
\* attempts, sleep 100 ms * 2^k after the k-th failed attempt (100, 200, 400, 800 ms), retry
\* only on lock and deadlock errors, re-raise any other error at once, and re-raise the lock
\* error after the last failed attempt.
C26_RetryBounded ==
    last.op \in {"safe_commit", "retry_on_db_lock"} =>
       LET f == last.faults
           r == last.result
           n == r.attempts
       IN /\ n \in 1..5
          /\ r.sleeps = [k \in 1..(n - 1) |-> 100 * 2^(k - 1)]
          /\ \A k \in 1..(n - 1) : f[k] \in {"database is locked", "deadlock detected"}
          /\ IF n > Len(f)
             THEN r.returned \in {"True", "value"}
             ELSE /\ r.returned = "raised"
                  /\ r.error = f[n]
                  /\ f[n] \notin {"database is locked", "deadlock detected"} \/ n = 5

\* a commit that met a lock error on all five attempts: four sleeps, then the error re-raised
C26_Witness ==
    /\ last.op = "safe_commit"
    /\ last.result.attempts = 5
    /\ last.result.sleeps = <<100, 200, 400, 800>>
    /\ last.result.returned = "raised"
    /\ last.result.error \in RetryableErrors

\* C27: revert is accepted only for a lead whose status is Accepted; a revert of an Accepted
\* lead goes through, and after it the lead is Rejected with accepted_at null, every 'acted'
\* assignment of the lead has status 'reverted', and a new pending assignment with a deadline
\* 4 hours ahead exists.
C27_RevertEffects ==
    /\ [](\A l \in DOMAIN leads : \A actor \in UsersWithRole("admin") \cup UsersWithRole("manager") :
            (RevertOutcome(actor, l, TRUE) = "ok") <=> (leads[l].status = "Accepted"))
    /\ [][\A l \in DOMAIN leads : \A actor \in Users :
            (RevertOutcome(actor, l, TRUE) = "ok" /\ RevertLead(actor, l, TRUE))
               => /\ leads'[l].status = "Rejected"
                  /\ leads'[l].accepted_at = NULL
                  /\ \A i \in ActedAssignments(l) : lead_assignments'[i].status = "reverted"
                  /\ \E i \in PendingAssignments(l)' \ DOMAIN lead_assignments :
                        lead_assignments'[i].deadline_at = now + 4]_vars

\* C28: has_period_overlap is a pure check inside the caller's unit of work: after it returns,
\* the caller's connection and cursor are still open and usable, so new_target and edit_target
\* insert or update and commit after the overlap check whenever the period does not overlap.
C28_OverlapCheckKeepsConnection ==
    \A actor \in UsersWithRole("admin") \cup UsersWithRole("manager") :
       \A assignee \in AssigneeChoices(actor) : \A ps \in Days, pe \in Days :
          /\ HasPeriodOverlap("open", assignee, ps, pe, NULL).conn = "open"
          /\ (ps < pe /\ ~HasPeriodOverlap("open", assignee, ps, pe, NULL).result)
                => NewTargetOutcome(actor, assignee, ps, pe) = "ok"
          /\ \A id \in DOMAIN lead_targets :
                (/\ ps < pe
                 /\ role[actor] = "admin" \/ lead_targets[id].assigned_by_id = actor
                 /\ ~HasPeriodOverlap("open", assignee, ps, pe, id).result)
                   => EditTargetOutcome(actor, id, assignee, ps, pe) = "ok"

\* C29: a lead's accepted_at is non-null exactly when its status is Accepted: accept sets it,
\* revert clears it, and no sequence of accept, reject, revert and resubmit leaves a Pending,
\* Rejected or Resubmitted lead with accepted_at set.
C29_AcceptedAtIffAccepted ==
    \A l \in DOMAIN leads : (leads[l].accepted_at # NULL) <=> (leads[l].status = "Accepted")

\* assignment row i has been handed on: a later row of the same lead names another manager
Reassigned(i) ==
    \E j \in DOMAIN lead_assignments :
       /\ j > i
       /\ lead_assignments[j].lead_id = lead_assignments[i].lead_id
       /\ lead_assignments[j].manager_id # lead_assignments[i].manager_id

\* C30: with the periodic sweep weakly fair, at least two managers and no manager action,
\* every pending overdue assignment of a Pending or Resubmitted lead is eventually reassigned,
\* also when more assignments are overdue than one batch takes: none is starved.
C30_OverdueEventuallyReassigned ==
    \A i \in 1..MaxLiveLeads :
       (i \in OverdueAssignments /\ Cardinality(UsersWithRole("manager")) >= 2)
          ~> (i \in DOMAIN lead_assignments /\ Reassigned(i))
====
